---- MODULE Spec2Model ----
(***************************************************************************)
(* A model of publicamundi.data.api.base.QueryExecutor: the batch engine   *)
(* (execute), the query compiler and runner (_execute_query and the        *)
(* _create_filter_* family) and the catalog resolver (getResources and     *)
(* describeResource).                                                      *)
(*                                                                         *)
(* Python dictionaries are modelled as sequences of records in insertion   *)
(* order (the key is a field of the record); JSON values are tagged        *)
(* records, so that a string, a number, a list and an object stay          *)
(* distinguishable.  Time is counted in ticks of half a millisecond, so    *)
(* that int() in the statement-timeout computation truncates something.    *)
(***************************************************************************)
EXTENDS Integers, Sequences, FiniteSets, TLC

VARIABLES
    pc,               \* position of the current execute call
    config,           \* the config argument of the current call
    request,          \* the query argument (the envelope) of the current call
    useDefault,       \* TRUE when execute was called without a metadata argument
    default_metadata, \* the dict object bound to execute's default metadata={}
    arg_metadata,     \* the dict object passed explicitly as metadata
    connection_ckan,  \* "none" | "open" | "closed"
    connection_data,  \* "none" | "open" | "closed"
    resources,        \* context['resources']
    elapsed_time,     \* context['elapsed_time'], in ticks
    qi,               \* index in the queue of the next query to run
    query_result,     \* one entry per query that ran to its end
    sent,             \* what this call sent over the data connection, in order
    catalog_loads,    \* how many times this call ran the catalog discovery
    last,             \* what the last _execute_query did (compiled statement, mutated query)
    outcome           \* how the current call left execute

vars == <<pc, config, request, useDefault, default_metadata, arg_metadata,
          connection_ckan, connection_data, resources, elapsed_time, qi,
          query_result, sent, catalog_loads, last, outcome>>

-----------------------------------------------------------------------------
(* Bounds of the model *)

MaxQueue == 2

-----------------------------------------------------------------------------
(* Constants of base.py *)

QUERY_FORMAT_JSON == "JSON"
QUERY_FORMAT_GEOJSON == "GeoJSON"
FORMAT_SUPPORT_QUERY == {QUERY_FORMAT_JSON, QUERY_FORMAT_GEOJSON}

CRS_SUPPORTED == {"EPSG:900913", "EPSG:3857", "EPSG:4326", "EPSG:2100", "EPSG:4258"}
CRS_DEFAULT_DATABASE == 2100
CRS_DEFAULT_OUTPUT == 3857

OP_LIKE == "LIKE"
OP_EQ == "EQUAL"
OP_NOT_EQ == "NOT_EQUAL"
OP_GT == "GREATER"
OP_GET == "GREATER_OR_EQUAL"
OP_LT == "LESS"
OP_LET == "LESS_OR_EQUAL"
OP_AREA == "AREA"
OP_DISTANCE == "DISTANCE"
OP_CONTAINS == "CONTAINS"
OP_INTERSECTS == "INTERSECTS"

COMPARE_OPERATORS == <<OP_EQ, OP_NOT_EQ, OP_GT, OP_GET, OP_LT, OP_LET, OP_LIKE>>
COMPARE_EXPRESSIONS == <<"=", "<>", ">", ">=", "<", "<=", "like">>
SPATIAL_COMPARE_OPERATORS == <<OP_EQ, OP_GT, OP_GET, OP_LT, OP_LET>>
SPATIAL_OPERATORS == <<OP_AREA, OP_DISTANCE, OP_CONTAINS, OP_INTERSECTS>>
ALL_OPERATORS == <<OP_EQ, OP_NOT_EQ, OP_GT, OP_GET, OP_LT, OP_LET, OP_LIKE,
                   OP_AREA, OP_DISTANCE, OP_CONTAINS, OP_INTERSECTS>>

MAX_RESULT_ROWS == 10000
DEFAULT_SQL_TIMEOUT == 30000
PG_QUERY_CANCELED == "57014"

(* ticks per millisecond and per second: the unit of elapsed_time *)
TicksPerMs == 2
TicksPerSecond == 1000 * TicksPerMs

-----------------------------------------------------------------------------
(* Generic helpers *)

Range(s) == {s[i] : i \in 1..Len(s)}

(* list.index(x): the first position of x *)
Index(s, x) == CHOOSE i \in 1..Len(s) : s[i] = x /\ \A j \in 1..(i-1) : s[j] # x

(* int(x) for the rational x = num / den, den > 0: truncation towards zero *)
PyInt(num, den) == IF num >= 0 THEN num \div den ELSE -((-num) \div den)

(* Python 2 a / b on two ints, b > 0: floor division *)
PyIntDiv(a, b) == a \div b

Max(a, b) == IF a >= b THEN a ELSE b
Min(a, b) == IF a <= b THEN a ELSE b

(* an exception travelling inside execute *)
NoExc == [type |-> "none", message |-> "", pgcode |-> ""]
DataException(m) == [type |-> "DataException", message |-> m, pgcode |-> ""]
DBAPIError(code) == [type |-> "DBAPIError", message |-> "", pgcode |-> code]
PyError(t) == [type |-> t, message |-> "", pgcode |-> ""]

-----------------------------------------------------------------------------
(* Python dicts: sequences of records with a field "key", in insertion order *)

Keys(d) == {d[i].key : i \in 1..Len(d)}
Has(d, k) == \E i \in 1..Len(d) : d[i].key = k
Get(d, k) == d[CHOOSE i \in 1..Len(d) : d[i].key = k]
(* d[k] = e: replaces the entry of the key in place, or appends a new one *)
Put(d, e) ==
    IF Has(d, e.key)
    THEN [i \in 1..Len(d) |-> IF d[i].key = e.key THEN e ELSE d[i]]
    ELSE Append(d, e)

-----------------------------------------------------------------------------
(* The two databases the engine talks to.                                  *)

(* rows of the catalog discovery query: db_resource_id of every active    *)
(* vector-storer resource                                                  *)
CatalogRows == <<"r1", "r2">>

(* rows of the introspection query for a table: name, type, and the srid  *)
(* of geometry_columns (0 stands for NULL)                                 *)
PgColumn(n, t, s) == [name |-> n, type |-> t, srid |-> s]
PgColumns(table) ==
    CASE table = "r1" -> << PgColumn("_id", "int4", 0), PgColumn("id", "int4", 0),
                            PgColumn("name", "varchar", 0),
                            PgColumn("geom", "geometry", 2100) >>
      [] table = "r2" -> << PgColumn("_id", "int4", 0), PgColumn("id", "int4", 0),
                            PgColumn("code", "varchar", 0),
                            PgColumn("the_geom", "geometry", 4326) >>
      [] OTHER -> << >>

(* name.startswith('_') over the column names of the databases *)
StartsWithUnderscore(n) == n \in {"_id"}

-----------------------------------------------------------------------------
(* Catalog resolver *)

(* one entry of the map getResources returns; alias, srid, geometry_column *)
(* and fields are the keys _execute_query adds later                       *)
ResourceStub(id) ==
    [key |-> id, table |-> id, alias |-> 0, described |-> FALSE,
     srid |-> 0, geometry_column |-> "", fields |-> << >>]

getResources ==
    [i \in 1..Len(CatalogRows) |-> ResourceStub(CatalogRows[i])]

RECURSIVE DescribeLoop(_, _, _)
DescribeLoop(rows, i, acc) ==
    IF i > Len(rows) \/ acc.exc.type # "none" THEN acc
    ELSE IF StartsWithUnderscore(rows[i].name) THEN DescribeLoop(rows, i + 1, acc)
    ELSE LET withField == [acc EXCEPT !.fields =
                              Put(@, [key |-> rows[i].name, name |-> rows[i].name,
                                      type |-> rows[i].type])]
         IN  IF rows[i].srid # 0
             THEN IF acc.srid # 0
                  THEN [withField EXCEPT !.exc =
                           DataException("More than 1 geometry columns found in resource {id}")]
                  ELSE DescribeLoop(rows, i + 1,
                           [withField EXCEPT !.srid = rows[i].srid,
                                             !.geometry_column = rows[i].name])
             ELSE DescribeLoop(rows, i + 1, withField)

(* describeResource(config, connection_data, id); dbFails: the database   *)
(* refuses the introspection statement                                     *)
describeResource(id, dbFails) ==
    IF dbFails
    THEN [exc |-> DBAPIError("08006"), fields |-> << >>, srid |-> 0, geometry_column |-> ""]
    ELSE DescribeLoop(PgColumns(id), 1,
             [exc |-> NoExc, fields |-> << >>, srid |-> 0, geometry_column |-> ""])

-----------------------------------------------------------------------------
(* JSON values of a request.  kind tells the Python type the decoder made. *)

Absent == [kind |-> "absent", items |-> << >>]
NotList == [kind |-> "notlist", items |-> << >>]
List(s) == [kind |-> "list", items |-> s]

(* a number n/d (d = 1 for an int, d > 1 for a float that is no integer), *)
(* a string, or nothing                                                    *)
NoNum == [kind |-> "absent", n |-> 0, d |-> 1]
IntNum(n) == [kind |-> "num", n |-> n, d |-> 1]
FracNum(n, d) == [kind |-> "num", n |-> n, d |-> d]
StrNum == [kind |-> "str", n |-> 0, d |-> 1]
NumLess(a, b) == a.n * b.d < b.n * a.d

(* an entry of resources, fields or sort: a bare string, an object, or    *)
(* something else (a number); desc: "absent", "true", "false" or "other"  *)
Ref(k, hn, n, ha, a, hr, r, dsc) ==
    [kind |-> k, hasName |-> hn, name |-> n, hasAlias |-> ha, alias |-> a,
     hasResource |-> hr, resource |-> r, desc |-> dsc]
Str(n) == Ref("str", TRUE, n, FALSE, "", FALSE, "", "absent")
Obj(n) == Ref("dict", TRUE, n, FALSE, "", FALSE, "", "absent")
ObjA(n, a) == Ref("dict", TRUE, n, TRUE, a, FALSE, "", "absent")
ObjR(n, r) == Ref("dict", TRUE, n, FALSE, "", TRUE, r, "absent")
ObjRA(n, r, a) == Ref("dict", TRUE, n, TRUE, a, TRUE, r, "absent")
ObjNoName == Ref("dict", FALSE, "", FALSE, "", FALSE, "", "absent")
Other == Ref("other", FALSE, "", FALSE, "", FALSE, "", "absent")
SortObj(n, hr, r, dsc) == Ref("dict", TRUE, n, FALSE, "", hr, r, dsc)

(* an argument of a filter: an int, a float, a string, a geometry (the    *)
(* decoder turned the GeoJSON object into a shapely geometry; s is its    *)
(* WKT), or an object                                                      *)
Arg(k, n, s, hn, nm, hr, r) ==
    [kind |-> k, n |-> n, s |-> s, hasName |-> hn, name |-> nm,
     hasResource |-> hr, resource |-> r]
IntArg(n) == Arg("int", n, "", FALSE, "", FALSE, "")
FloatArg(n) == Arg("float", n, "", FALSE, "", FALSE, "")
StrArg(s) == Arg("str", 0, s, FALSE, "", FALSE, "")
GeomArg(wkt) == Arg("geom", 0, wkt, FALSE, "", FALSE, "")
FieldArg(nm) == Arg("dict", 0, "", TRUE, nm, FALSE, "")
FieldArgR(nm, r) == Arg("dict", 0, "", TRUE, nm, TRUE, r)
NoneArg == Arg("none", 0, "", FALSE, "", FALSE, "")

Filter(op, args) ==
    [kind |-> "dict", hasOperator |-> TRUE, operator |-> op,
     hasArguments |-> TRUE, argsIsList |-> TRUE, arguments |-> args]

Query(res, flds, flts, srt, lim, off) ==
    [resources |-> res, fields |-> flds, filters |-> flts, sort |-> srt,
     limit |-> lim, offset |-> off]

-----------------------------------------------------------------------------
(* _execute_query, lines 200-212: limit and offset *)

(* lines 203-204 without the test limit > 0 *)
LimitOfWithoutLowerBound(query) ==
    IF query.limit.kind = "num" /\ NumLess(query.limit, IntNum(MAX_RESULT_ROWS))
    THEN query.limit
    ELSE IntNum(MAX_RESULT_ROWS)

(* lines 186 and 201-205: the limit of the statement *)
LimitOf(query) ==
    IF query.limit.kind = "num" /\ NumLess(query.limit, IntNum(MAX_RESULT_ROWS))
                                /\ NumLess(IntNum(0), query.limit)
    THEN query.limit
    ELSE IntNum(MAX_RESULT_ROWS)

OffsetOf(query) ==
    IF query.offset.kind = "num" /\ ~NumLess(query.offset, IntNum(0))
    THEN query.offset
    ELSE IntNum(0)

OptionsExc(query) ==
    IF query.limit.kind = "str" THEN DataException("Parameter limit must be a number.")
    ELSE IF query.offset.kind = "str" THEN DataException("Parameter offset must be a number.")
    ELSE NoExc

-----------------------------------------------------------------------------
(* _execute_query, lines 214-280: the resources of the query *)

MapEntry(k, v) == [key |-> k, val |-> v]

(* ResolveKnown with the alias given anew to a resource the metadata      *)
(* already holds                                                           *)
ResolveKnownResettingAlias(st, name, dbFails) ==
    IF ~Has(st.metadata, name)
    THEN IF describeResource(name, dbFails).exc.type # "none"
         THEN [st EXCEPT !.exc = describeResource(name, dbFails).exc,
                         !.described = Append(@, name)]
         ELSE [st EXCEPT !.metadata = Put(@, [Get(st.resources, name) EXCEPT
                             !.alias = Len(st.metadata) + 1,
                             !.described = TRUE,
                             !.srid = describeResource(name, dbFails).srid,
                             !.geometry_column = describeResource(name, dbFails).geometry_column,
                             !.fields = describeResource(name, dbFails).fields]),
                         !.described = Append(@, name),
                         !.parsed_resources = Put(@, [key |-> name,
                                                      table |-> Get(st.resources, name).table,
                                                      alias |-> Len(st.metadata) + 1]),
                         !.query_metadata = Put(@, [Get(st.resources, name) EXCEPT
                             !.alias = Len(st.metadata) + 1,
                             !.described = TRUE,
                             !.srid = describeResource(name, dbFails).srid,
                             !.geometry_column = describeResource(name, dbFails).geometry_column,
                             !.fields = describeResource(name, dbFails).fields])]
    ELSE [st EXCEPT !.metadata = Put(@, [Get(st.metadata, name) EXCEPT
                                            !.alias = Len(st.metadata) + 1]),
                    !.parsed_resources = Put(@, [key |-> name,
                                                 table |-> Get(st.metadata, name).table,
                                                 alias |-> Len(st.metadata) + 1]),
                    !.query_metadata = Put(@, [Get(st.metadata, name) EXCEPT
                                                  !.alias = Len(st.metadata) + 1])]

(* ResolveKnown with the alias counted over the resources of the query,   *)
(* not over the metadata of the batch                                      *)
ResolveKnownNumberingPerQuery(st, name, dbFails) ==
    IF Has(st.metadata, name)
    THEN [st EXCEPT !.parsed_resources = Put(@, [key |-> name,
                                                 table |-> Get(st.metadata, name).table,
                                                 alias |-> Get(st.metadata, name).alias]),
                    !.query_metadata = Put(@, Get(st.metadata, name))]
    ELSE IF describeResource(name, dbFails).exc.type # "none"
    THEN [st EXCEPT !.exc = describeResource(name, dbFails).exc,
                    !.described = Append(@, name)]
    ELSE [st EXCEPT !.metadata = Put(@, [Get(st.resources, name) EXCEPT
                        !.alias = Len(st.query_metadata) + 1,
                        !.described = TRUE,
                        !.srid = describeResource(name, dbFails).srid,
                        !.geometry_column = describeResource(name, dbFails).geometry_column,
                        !.fields = describeResource(name, dbFails).fields]),
                    !.described = Append(@, name),
                    !.parsed_resources = Put(@, [key |-> name,
                                                 table |-> Get(st.resources, name).table,
                                                 alias |-> Len(st.query_metadata) + 1]),
                    !.query_metadata = Put(@, [Get(st.resources, name) EXCEPT
                        !.alias = Len(st.query_metadata) + 1,
                        !.described = TRUE,
                        !.srid = describeResource(name, dbFails).srid,
                        !.geometry_column = describeResource(name, dbFails).geometry_column,
                        !.fields = describeResource(name, dbFails).fields])]

(* ResolveKnown with describeResource called for a resource the metadata  *)
(* already holds                                                           *)
ResolveKnownDescribingAgain(st, name, dbFails) ==
    IF Has(st.metadata, name)
    THEN [st EXCEPT !.described = Append(@, name),
                    !.parsed_resources = Put(@, [key |-> name,
                                                 table |-> Get(st.metadata, name).table,
                                                 alias |-> Get(st.metadata, name).alias]),
                    !.query_metadata = Put(@, Get(st.metadata, name))]
    ELSE IF describeResource(name, dbFails).exc.type # "none"
    THEN [st EXCEPT !.exc = describeResource(name, dbFails).exc,
                    !.described = Append(@, name)]
    ELSE [st EXCEPT !.metadata = Put(@, [Get(st.resources, name) EXCEPT
                        !.alias = Len(st.metadata) + 1,
                        !.described = TRUE,
                        !.srid = describeResource(name, dbFails).srid,
                        !.geometry_column = describeResource(name, dbFails).geometry_column,
                        !.fields = describeResource(name, dbFails).fields]),
                    !.described = Append(@, name),
                    !.parsed_resources = Put(@, [key |-> name,
                                                 table |-> Get(st.resources, name).table,
                                                 alias |-> Len(st.metadata) + 1]),
                    !.query_metadata = Put(@, [Get(st.resources, name) EXCEPT
                        !.alias = Len(st.metadata) + 1,
                        !.described = TRUE,
                        !.srid = describeResource(name, dbFails).srid,
                        !.geometry_column = describeResource(name, dbFails).geometry_column,
                        !.fields = describeResource(name, dbFails).fields])]

(* lines 252-276 for a name the catalog knows *)
ResolveKnown(st, name, dbFails) ==
    IF ~Has(st.metadata, name)
    THEN LET aliased == [Get(st.resources, name) EXCEPT !.alias = Len(st.metadata) + 1]
             db_fields == describeResource(name, dbFails)
             db_resource == [aliased EXCEPT !.described = TRUE,
                                            !.srid = db_fields.srid,
                                            !.geometry_column = db_fields.geometry_column,
                                            !.fields = db_fields.fields]
         IN  IF db_fields.exc.type # "none"
             THEN [st EXCEPT !.exc = db_fields.exc,
                             !.resources = Put(@, aliased),
                             !.described = Append(@, name)]
             ELSE [st EXCEPT !.resources = Put(@, db_resource),
                             !.metadata = Put(@, db_resource),
                             !.described = Append(@, name),
                             !.parsed_resources = Put(@, [key |-> name,
                                                          table |-> db_resource.table,
                                                          alias |-> db_resource.alias]),
                             !.query_metadata = Put(@, db_resource)]
    ELSE LET db_resource == Get(st.metadata, name)
         IN  [st EXCEPT !.parsed_resources = Put(@, [key |-> name,
                                                     table |-> db_resource.table,
                                                     alias |-> db_resource.alias]),
                        !.query_metadata = Put(@, db_resource)]

RECURSIVE ResourcesLoop(_, _, _, _)
ResourcesLoop(items, i, st, dbFails) ==
    IF i > Len(items) \/ st.exc.type # "none" THEN st
    ELSE LET r == items[i] IN
         IF r.kind = "dict" /\ ~r.hasName
         THEN [st EXCEPT !.exc = DataException("Resource name is missing.")]
         ELSE IF r.kind \notin {"dict", "str"}
         THEN [st EXCEPT !.exc = DataException(
                  "Resource parameter is malformed. Instance of string or dictionary is expected.")]
         ELSE LET resource_name == r.name
                  resource_alias == IF r.kind = "dict" /\ r.hasAlias THEN r.alias ELSE r.name
                  mapped == [st EXCEPT !.resource_mapping =
                                Put(Put(@, MapEntry(resource_name, resource_name)),
                                    MapEntry(resource_alias, resource_name))]
              IN  IF Has(st.resources, resource_name)
                  THEN ResourcesLoop(items, i + 1,
                                     ResolveKnown(mapped, resource_name, dbFails), dbFails)
                  ELSE [mapped EXCEPT !.exc = DataException("Resource {resource} does not exist.")]

(* the state of one _execute_query call as it enters the resources loop *)
QueryState(query, ctx_resources, ctx_metadata) ==
    [exc |-> NoExc, query |-> query, resources |-> ctx_resources, metadata |-> ctx_metadata,
     query_metadata |-> << >>, resource_mapping |-> << >>, parsed_resources |-> << >>,
     parsed_fields |-> << >>, parsed_filters |-> << >>, parsed_sort |-> << >>,
     described |-> << >>]

ResourcesStage(st, dbFails) ==
    IF st.query.resources.kind = "absent"
    THEN [st EXCEPT !.exc = DataException("No resource selected.")]
    ELSE IF st.query.resources.kind # "list"
    THEN [st EXCEPT !.exc = DataException(
             "Parameter resource should be a list with at least one item.")]
    ELSE ResourcesLoop(st.query.resources.items, 1, st, dbFails)

-----------------------------------------------------------------------------
(* _get_resources_by_field_name: the resources of metadata that have the field *)

HasField(metadata, i, field) == Has(metadata[i].fields, field)

RECURSIVE ByFieldLoop(_, _, _)
ByFieldLoop(metadata, i, field) ==
    IF i > Len(metadata) THEN << >>
    ELSE IF HasField(metadata, i, field)
         THEN <<metadata[i].key>> \o ByFieldLoop(metadata, i + 1, field)
         ELSE ByFieldLoop(metadata, i + 1, field)

_get_resources_by_field_name(metadata, field) == ByFieldLoop(metadata, 1, field)

(* mapping[r] in metadata, guarded by r in mapping *)
Resolves(metadata, mapping, r) == Has(mapping, r) /\ Has(metadata, Get(mapping, r).val)
Resolve(metadata, mapping, r) == Get(metadata, Get(mapping, r).val)

-----------------------------------------------------------------------------
(* _execute_query, lines 282-372: the projection *)

RECURSIVE FieldsOfResource(_, _, _)
FieldsOfResource(resource, fields, i) ==
    IF i > Len(fields) THEN << >>
    ELSE <<Ref("dict", TRUE, fields[i].name, FALSE, "", TRUE, resource, "absent")>>
         \o FieldsOfResource(resource, fields, i + 1)

RECURSIVE AllFields(_, _)
AllFields(query_metadata, i) ==
    IF i > Len(query_metadata) THEN << >>
    ELSE FieldsOfResource(query_metadata[i].key, query_metadata[i].fields, 1)
         \o AllFields(query_metadata, i + 1)

(* lines 284-299: query['fields'] is replaced when no field is selected *)
ExpandFields(st) ==
    IF st.query.fields.kind = "absent"
       \/ (st.query.fields.kind = "list" /\ Len(st.query.fields.items) = 0)
    THEN [st EXCEPT !.query.fields = List(AllFields(st.query_metadata, 1))]
    ELSE st

ParsedField(db_resource, db_field, field_alias) ==
    [key |-> field_alias, table_alias |-> db_resource.alias, name |-> db_field.name,
     alias |-> field_alias, type |-> db_field.type,
     is_geom |-> (db_field.name = db_resource.geometry_column),
     srid |-> IF db_field.name = db_resource.geometry_column THEN db_resource.srid ELSE 0]

(* lines 325-372 for one entry, its name, alias and optional resource known *)
(* AddField without the test of line 351: a second field of the same     *)
(* output alias replaces the first                                         *)
AddFieldOverwriting(st, field_name, field_alias, field_resource) ==
    IF ~Resolves(st.query_metadata, st.resource_mapping, field_resource)
    THEN [st EXCEPT !.exc = DataException("Resource {resource} for field {field} does not exist.")]
    ELSE IF ~Has(Resolve(st.query_metadata, st.resource_mapping, field_resource).fields, field_name)
    THEN [st EXCEPT !.exc = DataException("Field {field} does not exist in resource {resource}.")]
    ELSE [st EXCEPT !.parsed_fields =
             Put(@, ParsedField(Resolve(st.query_metadata, st.resource_mapping, field_resource),
                                Get(Resolve(st.query_metadata, st.resource_mapping,
                                            field_resource).fields, field_name),
                                field_alias))]

AddField(st, field_name, field_alias, field_resource) ==
    IF ~Resolves(st.query_metadata, st.resource_mapping, field_resource)
    THEN [st EXCEPT !.exc = DataException("Resource {resource} for field {field} does not exist.")]
    ELSE LET db_resource == Resolve(st.query_metadata, st.resource_mapping, field_resource)
         IN  IF ~Has(db_resource.fields, field_name)
             THEN [st EXCEPT !.exc = DataException(
                      "Field {field} does not exist in resource {resource}.")]
             ELSE IF Has(st.parsed_fields, field_alias)
             THEN [st EXCEPT !.exc = DataException(
                      "Field {field} in resource {resource} is ambiguous.")]
             ELSE [st EXCEPT !.parsed_fields =
                      Put(@, ParsedField(db_resource, Get(db_resource.fields, field_name),
                                         field_alias))]

RECURSIVE FieldsLoop(_, _, _)
FieldsLoop(items, i, st) ==
    IF i > Len(items) \/ st.exc.type # "none" THEN st
    ELSE LET f == items[i] IN
         IF f.kind = "dict" /\ ~f.hasName
         THEN [st EXCEPT !.exc = DataException("Field name is missing.")]
         ELSE IF f.kind \notin {"dict", "str"}
         THEN [st EXCEPT !.exc = DataException(
                  "Field is malformed. Instance of string or dictionary is expected.")]
         ELSE LET field_name == f.name
                  field_alias == IF f.kind = "dict" /\ f.hasAlias THEN f.alias ELSE f.name
                  found == _get_resources_by_field_name(st.query_metadata, field_name)
              IN  IF f.kind = "dict" /\ f.hasResource
                  THEN FieldsLoop(items, i + 1, AddField(st, field_name, field_alias, f.resource))
                  ELSE IF Len(found) = 0
                  THEN [st EXCEPT !.exc = DataException("Field {field} does not exist.")]
                  ELSE IF Len(found) = 1
                  THEN FieldsLoop(items, i + 1, AddField(st, field_name, field_alias, found[1]))
                  ELSE [st EXCEPT !.exc = DataException(
                           "Field {field} is ambiguous for resources {resources}.")]

FieldsStage(st) ==
    IF st.query.fields.kind = "notlist"
    THEN [st EXCEPT !.exc = DataException("Parameter fields should be a list.")]
    ELSE LET expanded == ExpandFields(st)
         IN  FieldsLoop(expanded.query.fields.items, 1, expanded)

(* lines 374-380: reduce() over the is_geom flags of the projection; it   *)
(* has no initial value, so an empty projection is a TypeError            *)
CountGeomColumns(parsed_fields) ==
    Cardinality({i \in 1..Len(parsed_fields) : parsed_fields[i].is_geom})

GeoJsonStage(st, output_format) ==
    IF output_format # QUERY_FORMAT_GEOJSON THEN st
    ELSE IF Len(st.parsed_fields) = 0 THEN [st EXCEPT !.exc = PyError("TypeError")]
    ELSE IF CountGeomColumns(st.parsed_fields) # 1
    THEN [st EXCEPT !.exc = DataException("Format {format} requires exactly one geometry column")]
    ELSE st

-----------------------------------------------------------------------------
(* The compiled statement: a sequence of tokens.  A user literal can only  *)
(* be a "param" token (a %s placeholder, bound by the values tuple) or,   *)
(* interpolated into the text, a "lit" token.                              *)

Tok(t, s, q) == [t |-> t, s |-> s, q |-> q]
Kw(s) == Tok("kw", s, 0)                      \* fixed text of the source
OpTok(s) == Tok("op", s, 0)                   \* a comparison expression
ColTok(alias, field) == Tok("col", field, alias)  \* t<alias>."<field>"
CastTok(s) == Tok("cast", s, 0)               \* ::int or ::float
Param == Tok("param", "%s", 0)
LitTok(s) == Tok("lit", s, 0)                 \* a literal written into the text

IsNumber(a) == a.kind \in {"int", "float"}
_is_geom(a) == a.kind = "geom"

(* unicode(x) of a literal *)
Unicode(a) == IF a.kind = "str" THEN a.s ELSE IF IsNumber(a) THEN ToString(a.n) ELSE a.kind
(* shapely.wkt.dumps(geometry) *)
WktDumps(a) == StrArg(a.s)

-----------------------------------------------------------------------------
(* _is_field and its companions.  _is_field writes the resource it infers  *)
(* into the argument, so each returns the argument as it leaves it.       *)

FieldResult(exc, val, f) == [exc |-> exc, val |-> val, f |-> f]

_is_field(metadata, mapping, f) ==
    IF f.kind # "dict" \/ ~f.hasName THEN FieldResult(NoExc, FALSE, f)
    ELSE IF f.hasResource /\ ~Resolves(metadata, mapping, f.resource)
    THEN FieldResult(DataException("Resource {resource} does not exist."), FALSE, f)
    ELSE LET found == _get_resources_by_field_name(metadata, f.name) IN
         IF ~f.hasResource /\ Len(found) = 0
         THEN FieldResult(DataException("Field {field} does not exist."), FALSE, f)
         ELSE IF ~f.hasResource /\ Len(found) > 1
         THEN FieldResult(DataException("Field {field} is ambiguous for resources {resources}."),
                          FALSE, f)
         ELSE LET g == IF f.hasResource THEN f
                       ELSE [f EXCEPT !.hasResource = TRUE, !.resource = found[1]]
              IN  IF ~Has(Resolve(metadata, mapping, g.resource).fields, g.name)
                  THEN FieldResult(DataException(
                           "Field {field} does not belong to resource {resource}."), FALSE, g)
                  ELSE FieldResult(NoExc, TRUE, g)

FieldDescriptor(metadata, mapping, f) == Resolve(metadata, mapping, f.resource)

_get_field_type(metadata, mapping, f) ==
    LET r == _is_field(metadata, mapping, f)
    IN  [exc |-> r.exc,
         val |-> IF r.val THEN Get(FieldDescriptor(metadata, mapping, r.f).fields, r.f.name).type
                 ELSE "None"]

_is_field_geom(metadata, mapping, f) ==
    LET r == _is_field(metadata, mapping, f)
    IN  [exc |-> r.exc,
         val |-> r.val /\ r.f.name = FieldDescriptor(metadata, mapping, r.f).geometry_column]

_get_field_srid(metadata, mapping, f) ==
    LET r == _is_field_geom(metadata, mapping, f)
    IN  IF r.val THEN FieldDescriptor(metadata, mapping, _is_field(metadata, mapping, f).f).srid
        ELSE 0

(* '{table}."{field}"' for a field argument *)
AliasedArg(metadata, mapping, f) ==
    ColTok(FieldDescriptor(metadata, mapping, f).alias, f.name)

(* the first exception of a sequence of results *)
(* what a _create_filter_* returns: the tuple (sql, value, ...) split in  *)
(* two, and the filter as the call leaves it                               *)
FilterResult(exc, sql, values, f) == [exc |-> exc, sql |-> sql, values |-> values, f |-> f]
FilterError(m, f) == FilterResult(DataException(m), << >>, << >>, f)

-----------------------------------------------------------------------------
(* _create_filter_compare *)

ConvertTo(field_type, literal) ==
    IF field_type = "varchar" /\ literal.kind = "int" THEN <<CastTok("::int")>>
    ELSE IF field_type = "varchar" /\ literal.kind = "float" THEN <<CastTok("::float")>>
    ELSE << >>

LikePattern(literal) == StrArg("%" \o Unicode(literal) \o "%")

(* lines 609-649 with the literal formatted into the text *)
CompareFieldLiteralInline(metadata, mapping, f, operator, expression, field, field_type, literal) ==
    FilterResult(NoExc,
        <<Kw("("), AliasedArg(metadata, mapping, field), OpTok(expression),
          LitTok(Unicode(literal)), Kw(")")>>, << >>, f)

(* lines 609-649: one field and one literal *)
CompareFieldLiteral(metadata, mapping, f, operator, expression, field, field_type, literal) ==
    IF operator = OP_LIKE /\ field_type # "varchar"
    THEN FilterError("Operator {operator} only supports text fields.", f)
    ELSE FilterResult(NoExc,
             <<Kw("("), AliasedArg(metadata, mapping, field)>>
                 \o (IF operator = OP_LIKE THEN << >> ELSE ConvertTo(field_type, literal))
                 \o <<OpTok(expression), Param, Kw(")")>>,
             <<IF operator = OP_LIKE THEN LikePattern(literal) ELSE literal>>,
             f)

(* lines 583-654: p1 and p2 are what _is_field gives for the two arguments *)
CompareOperands(metadata, mapping, f0, operator, expression, p1, p2) ==
    LET f1 == [f0 EXCEPT !.arguments[1] = p1.f]
        f  == [f0 EXCEPT !.arguments[1] = p1.f, !.arguments[2] = p2.f]
        arg1 == p1.f
        arg2 == p2.f
    IN  IF p1.exc.type # "none" THEN FilterResult(p1.exc, << >>, << >>, f1)
        ELSE IF p2.exc.type # "none" THEN FilterResult(p2.exc, << >>, << >>, f)
        ELSE IF _is_field_geom(metadata, mapping, arg1).val
                \/ _is_field_geom(metadata, mapping, arg2).val
        THEN FilterError("Operator {operator} does not support geometry types.", f)
        ELSE IF p1.val /\ p2.val
        THEN IF operator = OP_LIKE
             THEN FilterError("Operator {operator} does not support two fields as arguments.", f)
             ELSE FilterResult(NoExc,
                      <<Kw("("), AliasedArg(metadata, mapping, arg1), OpTok(expression),
                        AliasedArg(metadata, mapping, arg2), Kw(")")>>, << >>, f)
        ELSE IF p1.val /\ ~p2.val
        THEN CompareFieldLiteral(metadata, mapping, f, operator, expression, arg1,
                                 _get_field_type(metadata, mapping, arg1).val, arg2)
        ELSE IF ~p1.val /\ p2.val
        THEN CompareFieldLiteral(metadata, mapping, f, operator, expression, arg2,
                                 _get_field_type(metadata, mapping, arg2).val, arg1)
        ELSE IF operator = OP_LIKE
        THEN FilterError("Operator {operator} does not support two fields as literals.", f)
        ELSE FilterResult(NoExc, <<Kw("("), Param, OpTok(expression), Param, Kw(")")>>,
                          <<arg1, arg2>>, f)

_create_filter_compare(metadata, mapping, f0, operator, expression) ==
    IF Len(f0.arguments) # 2
    THEN FilterError("Operator {operator} expects two arguments.", f0)
    ELSE CompareOperands(metadata, mapping, f0, operator, expression,
                         _is_field(metadata, mapping, f0.arguments[1]),
                         _is_field(metadata, mapping, f0.arguments[2]))

-----------------------------------------------------------------------------
(* The spatial filters *)

(* a geometry field as an operand: transformed when its srid is not 2100 *)
GeomFieldExpr(metadata, mapping, f) ==
    IF _get_field_srid(metadata, mapping, f) # CRS_DEFAULT_DATABASE
    THEN <<Kw("ST_Transform("), AliasedArg(metadata, mapping, f), Kw(", 2100)")>>
    ELSE <<AliasedArg(metadata, mapping, f)>>

(* a literal geometry as an operand of DISTANCE, CONTAINS and INTERSECTS *)
GeomLiteralExpr ==
    <<Kw("ST_Transform("), Kw("ST_GeomFromText("), Param, Kw(", 3857)"), Kw(", 2100)")>>

(* a literal geometry as the operand of AREA *)
AreaLiteralExpr == <<Kw("ST_GeomFromText("), Param, Kw(", 3857)")>>

(* arg in SPATIAL_COMPARE_OPERATORS *)
IsSpatialCompare(a) == a.kind = "str" /\ a.s \in Range(SPATIAL_COMPARE_OPERATORS)
(* COMPARE_EXPRESSIONS[COMPARE_OPERATORS.index(arg)] *)
SpatialExpression(a) == COMPARE_EXPRESSIONS[Index(COMPARE_OPERATORS, a.s)]

FirstArgError ==
    "First argument for operator {operator} must be a geometry field or a GeoJSON encoded geometry."
SecondArgError ==
    "Second argument for operator {operator} must be a geometry field or a GeoJSON encoded geometry."

(* lines 679-711: p1 is what _is_field gives for the first argument *)
AreaOperands(metadata, mapping, f0, operator, p1, arg1_is_field_geom) ==
    LET f  == [f0 EXCEPT !.arguments[1] = p1.f]
        arg1 == p1.f
        arg2 == f0.arguments[2]
        arg3 == f0.arguments[3]
    IN  IF ~IsSpatialCompare(arg2)
        THEN FilterError("Expression {expression} for operator {operator} is not valid.", f0)
        ELSE IF p1.exc.type # "none" THEN FilterResult(p1.exc, << >>, << >>, f)
        ELSE IF ~arg1_is_field_geom /\ ~_is_geom(arg1) THEN FilterError(FirstArgError, f)
        ELSE IF ~IsNumber(arg3)
        THEN FilterError("Third argument for operator {operator} must be number.", f)
        ELSE IF arg1_is_field_geom
        THEN FilterResult(NoExc,
                 <<Kw("(ST_Area(")>> \o GeomFieldExpr(metadata, mapping, arg1)
                     \o <<Kw(")"), OpTok(SpatialExpression(arg2)), Param, Kw(")")>>,
                 <<arg3>>, f)
        ELSE FilterResult(NoExc,
                 <<Kw("(ST_Area(")>> \o AreaLiteralExpr
                     \o <<Kw(")"), OpTok(SpatialExpression(arg2)), Param, Kw(")")>>,
                 <<WktDumps(arg1), arg3>>, f)

AreaField(metadata, mapping, f0, operator, p1) ==
    AreaOperands(metadata, mapping, f0, operator, p1,
                 _is_field_geom(metadata, mapping, p1.f).val)

_create_filter_spatial_area(metadata, mapping, f0, operator) ==
    AreaField(metadata, mapping, f0, operator, _is_field(metadata, mapping, f0.arguments[1]))

(* lines 719-798: p1 and p2 are what _is_field gives for the two operands, *)
(* g1 and g2 what _is_field_geom gives                                      *)
DistanceOperands(metadata, mapping, f0, operator, p1, p2, g1, g2) ==
    LET f1 == [f0 EXCEPT !.arguments[1] = p1.f]
        f  == [f0 EXCEPT !.arguments[1] = p1.f, !.arguments[2] = p2.f]
        arg1 == p1.f
        arg2 == p2.f
        arg3 == f0.arguments[3]
        arg4 == f0.arguments[4]
        tail == <<Kw(")"), OpTok(SpatialExpression(arg3)), Param, Kw(")")>>
    IN  IF ~IsSpatialCompare(arg3)
        THEN FilterError("Expression {expression} for operator {operator} is not valid.", f0)
        ELSE IF p1.exc.type # "none" THEN FilterResult(p1.exc, << >>, << >>, f1)
        ELSE IF p2.exc.type # "none" THEN FilterResult(p2.exc, << >>, << >>, f)
        ELSE IF ~g1 /\ ~_is_geom(arg1) THEN FilterError(FirstArgError, f)
        ELSE IF ~g2 /\ ~_is_geom(arg2) THEN FilterError(SecondArgError, f)
        ELSE IF ~IsNumber(arg4)
        THEN FilterError("Third argument for operator {operator} must be number.", f)
        ELSE IF g1 /\ g2
        THEN FilterResult(NoExc,
                 <<Kw("(ST_Distance(")>> \o GeomFieldExpr(metadata, mapping, arg1) \o <<Kw(",")>>
                     \o GeomFieldExpr(metadata, mapping, arg2) \o tail,
                 <<arg4>>, f)
        ELSE IF g1 /\ ~g2
        THEN FilterResult(NoExc,
                 <<Kw("(ST_Distance(")>> \o GeomFieldExpr(metadata, mapping, arg1) \o <<Kw(",")>>
                     \o GeomLiteralExpr \o tail,
                 <<WktDumps(arg2), arg4>>, f)
        ELSE IF ~g1 /\ g2
        THEN FilterResult(NoExc,
                 <<Kw("(ST_Distance(")>> \o GeomFieldExpr(metadata, mapping, arg2) \o <<Kw(",")>>
                     \o GeomLiteralExpr \o tail,
                 <<WktDumps(arg1), arg4>>, f)
        ELSE FilterResult(NoExc,
                 <<Kw("(ST_Distance(")>> \o GeomLiteralExpr \o <<Kw(",")>>
                     \o GeomLiteralExpr \o tail,
                 <<WktDumps(arg1), WktDumps(arg2), arg4>>, f)

DistanceFields(metadata, mapping, f0, operator, p1, p2) ==
    DistanceOperands(metadata, mapping, f0, operator, p1, p2,
                     _is_field_geom(metadata, mapping, p1.f).val,
                     _is_field_geom(metadata, mapping, p2.f).val)

_create_filter_spatial_distance(metadata, mapping, f0, operator) ==
    DistanceFields(metadata, mapping, f0, operator,
                   _is_field(metadata, mapping, f0.arguments[1]),
                   _is_field(metadata, mapping, f0.arguments[2]))

(* lines 806-876: p1, p2, g1 and g2 as for DISTANCE *)
RelationOperands(metadata, mapping, f0, operator, spatial_operator, p1, p2, g1, g2) ==
    LET f1 == [f0 EXCEPT !.arguments[1] = p1.f]
        f  == [f0 EXCEPT !.arguments[1] = p1.f, !.arguments[2] = p2.f]
        arg1 == p1.f
        arg2 == p2.f
        head == <<Kw("("), Kw(spatial_operator), Kw("(")>>
        tail == <<Kw(") = TRUE)")>>
    IN  IF p1.exc.type # "none" THEN FilterResult(p1.exc, << >>, << >>, f1)
        ELSE IF p2.exc.type # "none" THEN FilterResult(p2.exc, << >>, << >>, f)
        ELSE IF ~g1 /\ ~_is_geom(arg1) THEN FilterError(FirstArgError, f)
        ELSE IF ~g2 /\ ~_is_geom(arg2) THEN FilterError(SecondArgError, f)
        ELSE IF g1 /\ g2
        THEN FilterResult(NoExc,
                 head \o GeomFieldExpr(metadata, mapping, arg1) \o <<Kw(",")>>
                      \o GeomFieldExpr(metadata, mapping, arg2) \o tail, << >>, f)
        ELSE IF g1 /\ ~g2
        THEN FilterResult(NoExc,
                 head \o GeomFieldExpr(metadata, mapping, arg1) \o <<Kw(",")>>
                      \o GeomLiteralExpr \o tail, <<WktDumps(arg2)>>, f)
        ELSE IF ~g1 /\ g2
        THEN FilterResult(NoExc,
                 head \o GeomLiteralExpr \o <<Kw(",")>>
                      \o GeomFieldExpr(metadata, mapping, arg2) \o tail, <<WktDumps(arg1)>>, f)
        ELSE FilterResult(NoExc,
                 head \o GeomLiteralExpr \o <<Kw(",")>> \o GeomLiteralExpr \o tail,
                 <<WktDumps(arg1), WktDumps(arg2)>>, f)

RelationFields(metadata, mapping, f0, operator, spatial_operator, p1, p2) ==
    RelationOperands(metadata, mapping, f0, operator, spatial_operator, p1, p2,
                     _is_field_geom(metadata, mapping, p1.f).val,
                     _is_field_geom(metadata, mapping, p2.f).val)

_create_filter_spatial_relation(metadata, mapping, f0, operator, spatial_operator) ==
    RelationFields(metadata, mapping, f0, operator, spatial_operator,
                   _is_field(metadata, mapping, f0.arguments[1]),
                   _is_field(metadata, mapping, f0.arguments[2]))

_create_filter_spatial(metadata, mapping, f, operator) ==
    IF operator = OP_AREA
    THEN IF Len(f.arguments) # 3
         THEN FilterError("Operator {operator} expects three arguments.", f)
         ELSE _create_filter_spatial_area(metadata, mapping, f, operator)
    ELSE IF operator = OP_DISTANCE
    THEN IF Len(f.arguments) # 4
         THEN FilterError("Operator {operator} expects four arguments.", f)
         ELSE _create_filter_spatial_distance(metadata, mapping, f, operator)
    ELSE IF Len(f.arguments) # 2
    THEN FilterError(IF operator = OP_CONTAINS THEN "Operator {operator} expects two."
                     ELSE "Operator {operator} expects two arguments.", f)
    ELSE _create_filter_spatial_relation(metadata, mapping, f, operator,
             IF operator = OP_CONTAINS THEN "ST_Contains" ELSE "ST_Intersects")

_create_filter(metadata, mapping, f) ==
    IF f.kind # "dict" THEN FilterError("Filter must be a dictionary.", f)
    ELSE IF ~f.hasOperator THEN FilterError("Parameter operator is missing from filter.", f)
    ELSE IF f.operator \notin Range(ALL_OPERATORS)
    THEN FilterError("Operator {operator} is not supported.", f)
    ELSE IF ~f.hasArguments THEN FilterError("Parameter arguments is missing from filter.", f)
    ELSE IF ~f.argsIsList \/ Len(f.arguments) = 0
    THEN FilterError("Parameter arguments must be a list with at least one member.", f)
    ELSE IF f.operator \in Range(COMPARE_OPERATORS)
    THEN _create_filter_compare(metadata, mapping, f, f.operator,
                                COMPARE_EXPRESSIONS[Index(COMPARE_OPERATORS, f.operator)])
    ELSE _create_filter_spatial(metadata, mapping, f, f.operator)

(* _execute_query, lines 382-388 *)
(* line 388: r is what _create_filter gives for the filter i; the filter *)
(* of the query is the one the call wrote the resources into              *)
AddFilter(st, i, r) ==
    IF r.exc.type # "none"
    THEN [st EXCEPT !.query.filters.items[i] = r.f, !.exc = r.exc]
    ELSE [st EXCEPT !.query.filters.items[i] = r.f,
                    !.parsed_filters = Append(@, [sql |-> r.sql, values |-> r.values])]

RECURSIVE FiltersLoop(_, _)
FiltersLoop(i, st) ==
    IF i > Len(st.query.filters.items) \/ st.exc.type # "none" THEN st
    ELSE FiltersLoop(i + 1,
             AddFilter(st, i, _create_filter(st.query_metadata, st.resource_mapping,
                                             st.query.filters.items[i])))

FiltersStage(st) ==
    IF st.query.filters.kind = "notlist"
    THEN [st EXCEPT !.exc = DataException(
             "Parameter filters should be a list with at least one item.")]
    ELSE FiltersLoop(1, st)

-----------------------------------------------------------------------------
(* _execute_query, lines 390-447: order by *)

SortEntry(alias, field, desc) == [q |-> alias, s |-> field, desc |-> desc]

(* lines 415-418: an output alias is replaced by the field it names *)
SortName(parsed_fields, name) ==
    IF Has(parsed_fields, name) /\ Get(parsed_fields, name).name # name
    THEN Get(parsed_fields, name).name
    ELSE name

(* lines 436-447 *)
AddSort(st, sort_name, sort_resource, sort_desc) ==
    IF ~Resolves(st.query_metadata, st.resource_mapping, sort_resource)
    THEN [st EXCEPT !.exc = DataException(
             "Resource {resource} for sorting field {field} does not exist.")]
    ELSE [st EXCEPT !.parsed_sort =
             Append(@, SortEntry(Resolve(st.query_metadata, st.resource_mapping,
                                         sort_resource).alias,
                                 sort_name, sort_desc))]

RECURSIVE SortLoop(_, _, _)
SortLoop(items, i, st) ==
    IF i > Len(items) \/ st.exc.type # "none" THEN st
    ELSE LET e == items[i] IN
         IF e.kind = "dict" /\ ~e.hasName
         THEN [st EXCEPT !.exc = DataException("Sorting field name is missing.")]
         ELSE IF e.kind \notin {"dict", "str"}
         THEN [st EXCEPT !.exc = DataException(
                  "Sorting field is malformed. Instance of string or dictionary is expected.")]
         ELSE LET sort_desc == e.kind = "dict" /\ e.desc = "true"
                  sort_name == SortName(st.parsed_fields, e.name)
                  found == _get_resources_by_field_name(st.query_metadata, sort_name)
              IN  IF e.kind = "dict" /\ e.hasResource
                  THEN SortLoop(items, i + 1, AddSort(st, sort_name, e.resource, sort_desc))
                  ELSE IF Len(found) = 0
                  THEN [st EXCEPT !.exc = DataException("Sorting field {field} does not exist.")]
                  ELSE IF Len(found) = 1
                  THEN SortLoop(items, i + 1, AddSort(st, sort_name, found[1], sort_desc))
                  ELSE [st EXCEPT !.exc = DataException(
                           "Sorting field {field} is ambiguous for resources {resources}.")]

SortStage(st) ==
    IF st.query.sort.kind = "notlist"
    THEN [st EXCEPT !.exc = DataException("Parameter sort should be a list.")]
    ELSE SortLoop(st.query.sort.items, 1, st)

-----------------------------------------------------------------------------
(* _execute_query, lines 449-495: the statement *)

(* one entry of the select list: transform = 0 when the field is emitted  *)
(* as it is, else the srid of ST_Transform                                 *)
SelectItem(pf, srid) ==
    [col |-> ColTok(pf.table_alias, pf.name),
     transform |-> IF pf.is_geom /\ pf.srid # srid THEN srid ELSE 0,
     alias |-> pf.alias]

RECURSIVE Flatten(_, _)
Flatten(parsed_filters, i) ==
    IF i > Len(parsed_filters) THEN << >>
    ELSE parsed_filters[i].values \o Flatten(parsed_filters, i + 1)

BuildSql(st, srid) ==
    [fields  |-> [i \in 1..Len(st.parsed_fields) |-> SelectItem(st.parsed_fields[i], srid)],
     tables  |-> [i \in 1..Len(st.parsed_resources) |->
                     [table |-> st.parsed_resources[i].table,
                      alias |-> st.parsed_resources[i].alias]],
     wheres  |-> [i \in 1..Len(st.parsed_filters) |-> st.parsed_filters[i].sql],
     orderby |-> st.parsed_sort,
     limit   |-> LimitOf(st.query),
     offset  |-> OffsetOf(st.query)]

BuildValues(st) == Flatten(st.parsed_filters, 1)

NoSql == [fields |-> << >>, tables |-> << >>, wheres |-> << >>, orderby |-> << >>,
          limit |-> NoNum, offset |-> NoNum]

(* a stage of _execute_query runs unless an earlier one raised *)
OptionsStep(st) ==
    IF OptionsExc(st.query).type # "none" THEN [st EXCEPT !.exc = OptionsExc(st.query)] ELSE st
ResourcesStep(st, dbFails) == IF st.exc.type # "none" THEN st ELSE ResourcesStage(st, dbFails)
FieldsStep(st) == IF st.exc.type # "none" THEN st ELSE FieldsStage(st)
GeoJsonStep(st, output_format) ==
    IF st.exc.type # "none" THEN st ELSE GeoJsonStage(st, output_format)
FiltersStep(st) == IF st.exc.type # "none" THEN st ELSE FiltersStage(st)
SortStep(st) == IF st.exc.type # "none" THEN st ELSE SortStage(st)

(* what _execute_query has when it reaches line 497 or raises before *)
Compiled(st, srid) ==
    [exc |-> st.exc, query |-> st.query, resources |-> st.resources,
     metadata |-> st.metadata, described |-> st.described,
     query_metadata |-> st.query_metadata, resource_mapping |-> st.resource_mapping,
     sql |-> IF st.exc.type = "none" THEN BuildSql(st, srid) ELSE NoSql,
     values |-> IF st.exc.type = "none" THEN BuildValues(st) ELSE << >>]

(* lines 186-495 of _execute_query: validation and compilation, up to the *)
(* statement; the first exception stops it                                 *)
Compile(query, output_format, srid, ctx_resources, ctx_metadata, dbFails) ==
    Compiled(
        SortStep(FiltersStep(GeoJsonStep(FieldsStep(ResourcesStep(
            OptionsStep(QueryState(query, ctx_resources, ctx_metadata)),
            dbFails)), output_format))),
        srid)

-----------------------------------------------------------------------------
(* _execute_query, lines 185 and 497-511: the time budget *)

(* config: whether it has the key 'timeout', its value in ms, and whether *)
(* the value is a float                                                    *)
Config(has, t, isFloat) == [hasTimeout |-> has, timeout |-> t, isFloat |-> isFloat]

(* line 185 *)
TimeoutOf(cfg) == IF cfg.hasTimeout THEN cfg.timeout ELSE DEFAULT_SQL_TIMEOUT

(* line 500 without the floor of 1000 *)
CommandTimeoutWithoutFloor(cfg, elapsed) ==
    PyInt(TimeoutOf(cfg) * TicksPerMs - elapsed, TicksPerMs)

(* line 500: max(int(timeout - elapsed_time * 1000), 1000), elapsed in ticks *)
CommandTimeout(cfg, elapsed) ==
    Max(PyInt(TimeoutOf(cfg) * TicksPerMs - elapsed, TicksPerMs), 1000)

(* line 505: min(time.time() - start_time, 1) *)
ClampElapsed(e) == Min(e, TicksPerSecond)

(* config['timeout'] / 1000 in ticks: Python 2 floors the quotient of two ints *)
BudgetSeconds(cfg) ==
    IF cfg.isFloat THEN cfg.timeout * TicksPerMs
    ELSE PyIntDiv(cfg.timeout, 1000) * TicksPerSecond

(* lines 508-511: the exception of the budget check, if any *)
BudgetExc(cfg, elapsed) ==
    IF ~cfg.hasTimeout THEN PyError("KeyError")
    ELSE IF elapsed >= BudgetSeconds(cfg)
    THEN DataException("Execution timeout has expired. Current timeout value is {timeout} seconds.")
    ELSE NoExc

-----------------------------------------------------------------------------
(* execute *)

(* the handlers without the except clause of DBAPIError *)
HandlerWithoutDbClause(exc) ==
    IF exc.type \in {"DataException", "DBAPIError"} THEN exc
    ELSE DataException("Unhandled exception has occured.")

(* Handler without the test of pgcode of line 160 *)
HandlerWithoutCancelTest(exc) ==
    IF exc.type = "DataException" THEN [exc EXCEPT !.pgcode = ""]
    ELSE DataException("Unhandled exception has occured.")

(* lines 153-167: the exception that leaves execute for one raised inside *)
Handler(exc) ==
    IF exc.type = "DataException" THEN [exc EXCEPT !.pgcode = ""]
    ELSE IF exc.type = "DBAPIError"
    THEN DataException(IF exc.pgcode = PG_QUERY_CANCELED THEN "Execution exceeded timeout."
                       ELSE "Unhandled exception has occured.")
    ELSE DataException("Unhandled exception has occured.")

(* the finally clause with both close() calls under the test of connection_data *)
FinallyUnderOneTest(ckan, data) ==
    IF data = "none" THEN [ckan |-> ckan, data |-> data]
    ELSE [ckan |-> "closed", data |-> "closed"]

(* lines 168-172: the finally clause *)
Close(c) == IF c = "none" THEN "none" ELSE "closed"
Finally(ckan, data) == [ckan |-> Close(ckan), data |-> Close(data)]

(* int(query['crs'].split(':')[1]) *)
CrsCode(crs) ==
    CASE crs = "EPSG:900913" -> 900913
      [] crs = "EPSG:3857" -> 3857
      [] crs = "EPSG:4326" -> 4326
      [] crs = "EPSG:2100" -> 2100
      [] crs = "EPSG:4258" -> 4258
      [] OTHER -> 0

Opt(has, v) == [has |-> has, v |-> v]
Envelope(crs, format, queue) == [crs |-> crs, format |-> format, queue |-> queue]

(* EnvelopeExc without the test of the length of the queue of line 108 *)
EnvelopeExcAcceptingEmptyQueue(req) ==
    IF req.crs.has /\ req.crs.v \notin CRS_SUPPORTED THEN PyError("KeyError")
    ELSE IF req.format.has /\ req.format.v \notin FORMAT_SUPPORT_QUERY
    THEN DataException("Output format {format} is not supported for query results.")
    ELSE IF req.queue.kind = "absent" THEN DataException("Parameter queue is required.")
    ELSE IF req.queue.kind # "list"
    THEN DataException("Parameter queue should be a list with at least one item.")
    ELSE NoExc

(* lines 87-109: the envelope.  The message of line 93 names {crs} but is *)
(* formatted with the keyword format, which raises a KeyError.            *)
EnvelopeExc(req) ==
    IF req.crs.has /\ req.crs.v \notin CRS_SUPPORTED THEN PyError("KeyError")
    ELSE IF req.format.has /\ req.format.v \notin FORMAT_SUPPORT_QUERY
    THEN DataException("Output format {format} is not supported for query results.")
    ELSE IF req.queue.kind = "absent" THEN DataException("Parameter queue is required.")
    ELSE IF req.queue.kind # "list" \/ Len(req.queue.items) = 0
    THEN DataException("Parameter queue should be a list with at least one item.")
    ELSE NoExc

OutputFormat(req) == IF req.format.has THEN req.format.v ELSE QUERY_FORMAT_GEOJSON
Crs(req) == IF req.crs.has THEN CrsCode(req.crs.v) ELSE CRS_DEFAULT_OUTPUT

(* context['metadata']: the dict the call was given, or the default one *)
Metadata == IF useDefault THEN default_metadata ELSE arg_metadata

SetMetadata(m) ==
    IF useDefault
    THEN default_metadata' = m /\ UNCHANGED arg_metadata
    ELSE arg_metadata' = m /\ UNCHANGED default_metadata

NoOutcome == [kind |-> "none", exc |-> NoExc, inner |-> NoExc, data |-> << >>,
              crs |-> 0, format |-> "", metadata |-> << >>]
Raised(exc) == [NoOutcome EXCEPT !.kind = "raise", !.exc = Handler(exc),
                                 !.inner = IF exc.type = "DataException" THEN NoExc ELSE exc]
Returned(data, crs, format, metadata) ==
    [NoOutcome EXCEPT !.kind = "return", !.data = data, !.crs = crs, !.format = format,
                      !.metadata = metadata]

NoLast == [ran |-> FALSE, exc |-> NoExc,
           query |-> Query(Absent, Absent, Absent, Absent, NoNum, NoNum),
           original |-> Query(Absent, Absent, Absent, Absent, NoNum, NoNum),
           sql |-> NoSql, values |-> << >>, db |-> "none", mapping |-> << >>]

(* what the data connection was sent *)
SentDescribe(id) == [kind |-> "describe", resource |-> id, timeout |-> 0, sql |-> NoSql,
                     values |-> << >>]
SentTimeout(t) == [kind |-> "set_timeout", resource |-> "", timeout |-> t, sql |-> NoSql,
                   values |-> << >>]
SentSql(sql, values) == [kind |-> "sql", resource |-> "", timeout |-> 0, sql |-> sql,
                         values |-> values]
Describes(ids) == [i \in 1..Len(ids) |-> SentDescribe(ids[i])]

(* leaving execute through an exception: handler and finally *)
Raise(exc) ==
    /\ pc' = "raised"
    /\ outcome' = Raised(exc)
    /\ connection_ckan' = Finally(connection_ckan, connection_data).ckan
    /\ connection_data' = Finally(connection_ckan, connection_data).data

-----------------------------------------------------------------------------
(* The data database's answer to a compiled statement *)

TableOfAlias(sql, alias) ==
    IF \E i \in 1..Len(sql.tables) : sql.tables[i].alias = alias
    THEN sql.tables[CHOOSE i \in 1..Len(sql.tables) : sql.tables[i].alias = alias].table
    ELSE ""

ColumnExists(sql, alias, field) ==
    \E i \in 1..Len(PgColumns(TableOfAlias(sql, alias))) :
        PgColumns(TableOfAlias(sql, alias))[i].name = field

(* a statement PostgreSQL can run at all: it selects something from some  *)
(* table and orders by columns that exist                                  *)
Accepted(sql) ==
    /\ Len(sql.fields) > 0
    /\ Len(sql.tables) > 0
    /\ \A i \in 1..Len(sql.orderby) : ColumnExists(sql, sql.orderby[i].q, sql.orderby[i].s)

(* the %s a name brings into the text it is formatted into: of the names  *)
(* of the calls below only "%s" has one                                    *)
PlaceholdersIn(name) == IF name = "%s" THEN 1 ELSE 0

RECURSIVE SumOver(_, _)
SumOver(counts, i) == IF i > Len(counts) THEN 0 ELSE counts[i] + SumOver(counts, i + 1)

(* lines 458-495: the positional placeholders of the statement as it is   *)
(* sent, those of the output aliases of the select list, then those of    *)
(* the filters, then those of the names of the order-by clause            *)
SelectPlaceholders(sql) ==
    SumOver([i \in 1..Len(sql.fields) |-> PlaceholdersIn(sql.fields[i].alias)], 1)
WherePlaceholders(sql) ==
    SumOver([i \in 1..Len(sql.wheres) |->
                Cardinality({k \in 1..Len(sql.wheres[i]) : sql.wheres[i][k].t = "param"})], 1)
OrderPlaceholders(sql) ==
    SumOver([i \in 1..Len(sql.orderby) |-> PlaceholdersIn(sql.orderby[i].s)], 1)
StatementPlaceholders(sql) ==
    SelectPlaceholders(sql) + WherePlaceholders(sql) + OrderPlaceholders(sql)

(* line 503: the driver formats the statement with the values when there  *)
(* are values; a placeholder without a value is an IndexError             *)
Formats(sql, values) == Len(values) = 0 \/ StatementPlaceholders(sql) <= Len(values)

-----------------------------------------------------------------------------
(* The calls the model makes: configurations, envelopes and queries *)

R1 == List(<<Str("r1")>>)
R2 == List(<<Str("r2")>>)
R12 == List(<<Str("r1"), Str("r2")>>)

ResourceChoices ==
    { Absent, NotList, List(<< >>), R1, R2, R12, List(<<Str("zz")>>),
      List(<<ObjA("r1", "a")>>), List(<<ObjNoName>>), List(<<Other>>),
      List(<<Str("r1"), Str("r1")>>),
      List(<<ObjA("r1", "x"), ObjA("r2", "x")>>), List(<<Str("r2"), ObjA("r1", "r2")>>) }

FieldChoices ==
    { Absent, NotList, List(<< >>), List(<<Str("id")>>), List(<<Str("geom")>>),
      List(<<Str("name"), Str("geom")>>), List(<<ObjR("geom", "a")>>),
      List(<<ObjRA("id", "r1", "x"), ObjRA("id", "r2", "x")>>),
      List(<<ObjR("id", "r1"), ObjR("id", "r2")>>),
      List(<<ObjR("geom", "r1"), ObjR("the_geom", "r2")>>),
      List(<<Str("nofield")>>), List(<<ObjNoName>>), List(<<Other>>),
      List(<<ObjR("code", "r1")>>), List(<<ObjR("id", "zz")>>) }

Point == GeomArg("POINT (1 1)")
Polygon == GeomArg("POLYGON ((0 0, 0 1, 1 1, 0 0))")

CompareFilters ==
    { Filter(OP_EQ, <<FieldArg("name"), StrArg("x")>>),
      Filter(OP_EQ, <<FieldArg("name"), IntArg(7)>>),
      Filter(OP_NOT_EQ, <<FieldArgR("code", "r2"), FloatArg(7)>>),
      Filter(OP_GT, <<IntArg(5), FieldArgR("id", "r1")>>),
      Filter(OP_GET, <<FloatArg(2), FieldArg("name")>>),
      Filter(OP_LT, <<FieldArgR("id", "r1"), FieldArgR("id", "r2")>>),
      Filter(OP_LET, <<FieldArg("id"), IntArg(1)>>),
      Filter(OP_LIKE, <<FieldArg("name"), StrArg("main")>>),
      Filter(OP_LIKE, <<IntArg(4), FieldArg("name")>>),
      Filter(OP_LIKE, <<FieldArgR("id", "r1"), StrArg("main")>>),
      Filter(OP_LIKE, <<FieldArgR("id", "r1"), FieldArg("name")>>),
      Filter(OP_LIKE, <<StrArg("a"), StrArg("b")>>),
      Filter(OP_NOT_EQ, <<IntArg(1), StrArg("1")>>),
      Filter(OP_EQ, <<FieldArg("geom"), IntArg(1)>>),
      Filter(OP_EQ, <<FieldArg("name")>>),
      Filter(OP_EQ, <<FieldArgR("name", "zz"), IntArg(1)>>),
      Filter(OP_EQ, <<FieldArg("nofield"), IntArg(1)>>),
      Filter(OP_EQ, <<FieldArgR("code", "r1"), IntArg(1)>>),
      Filter(OP_EQ, <<FieldArg("name"), NoneArg>>) }

SpatialFilters ==
    { Filter(OP_AREA, <<FieldArg("geom"), StrArg(OP_GT), IntArg(100)>>),
      Filter(OP_AREA, <<FieldArg("the_geom"), StrArg(OP_LET), FloatArg(3)>>),
      Filter(OP_AREA, <<Polygon, StrArg(OP_EQ), IntArg(1)>>),
      Filter(OP_AREA, <<FieldArg("geom"), StrArg(OP_NOT_EQ), IntArg(1)>>),
      Filter(OP_AREA, <<FieldArg("geom"), StrArg("> 0 OR 1"), IntArg(1)>>),
      Filter(OP_AREA, <<FieldArg("geom"), IntArg(1), IntArg(1)>>),
      Filter(OP_AREA, <<FieldArg("geom"), StrArg(OP_LT), StrArg("1")>>),
      Filter(OP_AREA, <<FieldArg("name"), StrArg(OP_LT), IntArg(1)>>),
      Filter(OP_AREA, <<FieldArg("geom"), StrArg(OP_LT)>>),
      Filter(OP_DISTANCE, <<FieldArg("geom"), FieldArg("the_geom"), StrArg(OP_LT), IntArg(10)>>),
      Filter(OP_DISTANCE, <<FieldArg("geom"), Point, StrArg(OP_GET), IntArg(10)>>),
      Filter(OP_DISTANCE, <<Point, FieldArg("the_geom"), StrArg(OP_EQ), FloatArg(10)>>),
      Filter(OP_DISTANCE, <<Point, Polygon, StrArg(OP_GT), IntArg(10)>>),
      Filter(OP_DISTANCE, <<Point, Polygon, StrArg(OP_LIKE), IntArg(10)>>),
      Filter(OP_DISTANCE, <<Point, IntArg(3), StrArg(OP_GT), IntArg(10)>>),
      Filter(OP_DISTANCE, <<Point, Polygon, StrArg(OP_GT), StrArg("10")>>),
      Filter(OP_DISTANCE, <<Point, Polygon, StrArg(OP_GT)>>),
      Filter(OP_CONTAINS, <<FieldArg("the_geom"), Polygon>>),
      Filter(OP_CONTAINS, <<FieldArg("geom"), FieldArg("the_geom")>>),
      Filter(OP_CONTAINS, <<IntArg(1), Polygon>>),
      Filter(OP_CONTAINS, <<Polygon>>),
      Filter(OP_INTERSECTS, <<Polygon, FieldArg("geom")>>),
      Filter(OP_INTERSECTS, <<Point, Polygon>>),
      Filter(OP_INTERSECTS, <<Point, Polygon, Point>>) }

MalformedFilters ==
    { Filter("BETWEEN", <<IntArg(1), IntArg(2)>>),
      [Filter(OP_EQ, << >>) EXCEPT !.kind = "other"],
      [Filter(OP_EQ, << >>) EXCEPT !.hasOperator = FALSE],
      [Filter(OP_EQ, << >>) EXCEPT !.hasArguments = FALSE],
      [Filter(OP_EQ, << >>) EXCEPT !.argsIsList = FALSE],
      Filter(OP_EQ, << >>) }

FilterChoices ==
    { NotList, List(<< >>),
      List(<<Filter(OP_EQ, <<FieldArg("name"), StrArg("x")>>),
             Filter(OP_AREA, <<Polygon, StrArg(OP_GET), IntArg(2)>>),
             Filter(OP_GT, <<IntArg(5), FieldArgR("id", "r1")>>)>>) }
    \cup { List(<<f>>) : f \in CompareFilters \cup SpatialFilters \cup MalformedFilters }

SortChoices ==
    { NotList, List(<< >>), List(<<Str("id")>>), List(<<Str("name")>>), List(<<Str("n")>>),
      List(<<Str("nofield")>>), List(<<ObjNoName>>), List(<<Other>>),
      List(<<SortObj("name", TRUE, "r1", "true")>>),
      List(<<SortObj("name", FALSE, "", "false"), SortObj("id", TRUE, "r1", "other")>>),
      List(<<SortObj("nofield", TRUE, "r1", "absent")>>),
      List(<<SortObj("id", TRUE, "zz", "absent")>>) }

LimitChoices ==
    { NoNum, StrNum, IntNum(-1), IntNum(0), FracNum(1, 2), IntNum(1), IntNum(5),
      FracNum(5, 2), IntNum(MAX_RESULT_ROWS - 1), IntNum(MAX_RESULT_ROWS),
      IntNum(MAX_RESULT_ROWS + 1) }

OffsetChoices == { NoNum, StrNum, IntNum(-1), IntNum(0), IntNum(3) }

GeomOfR1 == List(<<ObjR("geom", "r1")>>)
NamedFields == List(<<ObjA("name", "n"), Str("geom")>>)

Aliased == {List(<<ObjA("r1", "a")>>), List(<<ObjA("r1", "x"), ObjA("r2", "x")>>),
            List(<<Str("r2"), ObjA("r1", "r2")>>), List(<< >>)}

Queries ==
    { Query(r, Absent, Absent, Absent, NoNum, NoNum) : r \in ResourceChoices }
    \cup { Query(r, f, Absent, Absent, NoNum, NoNum) : r \in {R1, R12}, f \in FieldChoices }
    \cup { Query(r, f, Absent, Absent, NoNum, NoNum) :
              r \in Aliased,
              f \in {List(<< >>), List(<<Str("geom")>>), List(<<ObjR("geom", "a")>>),
                     List(<<ObjR("geom", "x")>>), List(<<ObjR("the_geom", "r2")>>),
                     List(<<Str("the_geom")>>)} }
    \cup { Query(r, GeomOfR1, f, Absent, NoNum, NoNum) : r \in {R1, R12}, f \in FilterChoices }
    \cup { Query(r, f, Absent, s, NoNum, NoNum) :
              r \in {R1, R12}, f \in {Absent, NamedFields}, s \in SortChoices }
    \cup { Query(R1, Absent, Absent, Absent, l, o) : l \in LimitChoices, o \in OffsetChoices }
    \cup { Query(R1, f, List(<<Filter(OP_EQ, <<FieldArg("name"), StrArg("x")>>)>>), s,
                 NoNum, NoNum) :
              f \in {GeomOfR1, List(<<ObjRA("geom", "r1", "%s")>>)},
              s \in {Absent, List(<<Str("id")>>), List(<<SortObj("%s", TRUE, "r1", "absent")>>)} }

(* the queries of the batches of more than one query *)
QueueQueries ==
    { Query(R1, Absent, Absent, Absent, NoNum, NoNum),
      Query(R2, Absent, Absent, Absent, IntNum(5), NoNum),
      Query(R12, GeomOfR1, Absent, Absent, NoNum, NoNum),
      Query(List(<<Str("zz")>>), Absent, Absent, Absent, NoNum, NoNum) }

Queues == UNION { [1..n -> QueueQueries] : n \in 1..MaxQueue }

NoOpt == Opt(FALSE, "")

Envelopes ==
    { Envelope(c, f, q) :
        c \in {NoOpt, Opt(TRUE, "EPSG:4326"), Opt(TRUE, "EPSG:2100"), Opt(TRUE, "EPSG:9999")},
        f \in {NoOpt, Opt(TRUE, QUERY_FORMAT_JSON), Opt(TRUE, QUERY_FORMAT_GEOJSON),
               Opt(TRUE, "XML")},
        q \in {Absent, NotList, List(<< >>),
               List(<<Query(R2, Absent, Absent, Absent, NoNum, NoNum)>>)} }

BaseConfig == Config(TRUE, 2500, FALSE)

TimingConfigs ==
    { Config(FALSE, 0, FALSE), Config(TRUE, 500, FALSE), Config(TRUE, 1000, FALSE),
      Config(TRUE, 1500, FALSE), Config(TRUE, 1500, TRUE), BaseConfig }

Scenario(c, r, byDefault) == [config |-> c, request |-> r, byDefault |-> byDefault]

(* every call but those of the last line leaves the metadata argument out *)
Scenarios ==
    { Scenario(BaseConfig, Envelope(NoOpt, f, List(<<q>>)), TRUE) :
          f \in {NoOpt, Opt(TRUE, QUERY_FORMAT_JSON)}, q \in Queries }
    \cup { Scenario(BaseConfig, e, TRUE) : e \in Envelopes }
    \cup { Scenario(c, Envelope(NoOpt, NoOpt, List(q)), TRUE) :
              c \in TimingConfigs, q \in Queues }
    \cup { Scenario(BaseConfig, Envelope(NoOpt, NoOpt, List(q)), FALSE) : q \in Queues }

(* what one statement can take, in ticks: one tick, 400 ms, 1 s, 1.7 s *)
ElapsedChoices == {1, 400 * TicksPerMs, 1000 * TicksPerMs, 1700 * TicksPerMs}

DbOutcomes == {"ok", "canceled", "error"}

-----------------------------------------------------------------------------
(* The state machine of execute *)

Init ==
    /\ pc = "idle"
    /\ config = BaseConfig
    /\ request = Envelope(NoOpt, NoOpt, Absent)
    /\ useDefault = TRUE
    /\ default_metadata = << >>
    /\ arg_metadata = << >>
    /\ connection_ckan = "none"
    /\ connection_data = "none"
    /\ resources = << >>
    /\ elapsed_time = 0
    /\ qi = 1
    /\ query_result = << >>
    /\ sent = << >>
    /\ catalog_loads = 0
    /\ last = NoLast
    /\ outcome = NoOutcome

(* execute(config, query) or execute(config, query, {}): lines 79-109 *)
Call(sc) ==
    /\ pc = "idle"
    /\ config' = sc.config
    /\ request' = sc.request
    /\ useDefault' = sc.byDefault
    /\ arg_metadata' = << >>
    /\ IF EnvelopeExc(sc.request).type # "none"
       THEN Raise(EnvelopeExc(sc.request))
       ELSE /\ pc' = "validated"
            /\ UNCHANGED <<outcome, connection_ckan, connection_data>>
    /\ UNCHANGED <<default_metadata, resources, elapsed_time, qi, query_result, sent,
                   catalog_loads, last>>

(* line 114: engine_ckan.connect() *)
ConnectCatalog(ok) ==
    /\ pc = "validated"
    /\ IF ok
       THEN /\ connection_ckan' = "open"
            /\ pc' = "catalog_open"
            /\ UNCHANGED <<outcome, connection_data>>
       ELSE Raise(DBAPIError(""))
    /\ UNCHANGED <<config, request, useDefault, default_metadata, arg_metadata,
                   resources, elapsed_time, qi, query_result, sent, catalog_loads, last>>

(* line 115: engine_data.connect() *)
ConnectData(ok) ==
    /\ pc = "catalog_open"
    /\ IF ok
       THEN /\ connection_data' = "open"
            /\ pc' = "data_open"
            /\ UNCHANGED <<outcome, connection_ckan>>
       ELSE Raise(DBAPIError(""))
    /\ UNCHANGED <<config, request, useDefault, default_metadata, arg_metadata,
                   resources, elapsed_time, qi, query_result, sent, catalog_loads, last>>

(* lines 117-132: the context, with the catalog loaded by getResources *)
LoadCatalog(ok) ==
    /\ pc = "data_open"
    /\ catalog_loads' = catalog_loads + 1
    /\ IF ok
       THEN /\ resources' = getResources
            /\ pc' = "running"
            /\ UNCHANGED <<outcome, connection_ckan, connection_data>>
       ELSE /\ Raise(DBAPIError(""))
            /\ UNCHANGED resources
    /\ UNCHANGED <<config, request, useDefault, default_metadata, arg_metadata,
                   elapsed_time, qi, query_result, sent, last>>

(* the per-query result appended at lines 139-145 *)
PartialResult(output_format, index) ==
    [type |-> IF output_format = QUERY_FORMAT_GEOJSON THEN "FeatureCollection" ELSE "records",
     query |-> index]

(* lines 134-137 and _execute_query up to line 495: the next query of the *)
(* queue is validated and compiled, its resources introspected on the     *)
(* way.  dbFails: the data database refuses the introspection.            *)
CompileQuery(dbFails) ==
    /\ pc = "running"
    /\ qi <= Len(request.queue.items)
    /\ \E c \in {Compile(request.queue.items[qi], OutputFormat(request), Crs(request),
                          resources, Metadata, dbFails)} :
           /\ dbFails => c.exc.type = "DBAPIError"
           /\ resources' = c.resources
           /\ SetMetadata(c.metadata)
           /\ last' = [ran |-> TRUE, exc |-> c.exc, query |-> c.query,
                       original |-> request.queue.items[qi],
                       sql |-> c.sql, values |-> c.values, db |-> "none",
                       mapping |-> c.resource_mapping]
           /\ sent' = sent \o Describes(c.described)
           /\ IF c.exc.type # "none"
              THEN Raise(c.exc)
              ELSE /\ pc' = "compiled"
                   /\ UNCHANGED <<outcome, connection_ckan, connection_data>>
    /\ UNCHANGED <<config, request, useDefault, elapsed_time, qi, query_result,
                   catalog_loads>>

(* _execute_query, lines 497-541, and lines 139-145 of execute: the       *)
(* statement runs under its timeout.  db is what the data database does,  *)
(* e the time the two statements take.                                     *)
RunStatement(db, e) ==
    /\ pc = "compiled"
    /\ LET command_timeout == CommandTimeout(config, elapsed_time)
           ran == db = "ok" /\ Accepted(last.sql) /\ Formats(last.sql, last.values)
           elapsed == elapsed_time + ClampElapsed(e)
           exc == IF db = "canceled" THEN DBAPIError(PG_QUERY_CANCELED)
                  ELSE IF db = "ok" /\ ~Formats(last.sql, last.values)
                  THEN PyError("IndexError")
                  ELSE IF ~ran THEN DBAPIError("42601")
                  ELSE BudgetExc(config, elapsed)
       IN  /\ IF ran THEN e <= command_timeout * TicksPerMs ELSE e = 1
           /\ sent' = sent \o <<SentTimeout(command_timeout), SentSql(last.sql, last.values)>>
           /\ elapsed_time' = IF ran THEN elapsed ELSE elapsed_time
           /\ last' = [last EXCEPT !.exc = exc, !.db = IF ran THEN "ok" ELSE "failed"]
           /\ IF exc.type # "none"
              THEN /\ Raise(exc)
                   /\ UNCHANGED <<qi, query_result>>
              ELSE /\ query_result' = Append(query_result,
                                             PartialResult(OutputFormat(request), qi))
                   /\ qi' = qi + 1
                   /\ pc' = "running"
                   /\ UNCHANGED <<outcome, connection_ckan, connection_data>>
    /\ UNCHANGED <<config, request, useDefault, default_metadata, arg_metadata,
                   resources, catalog_loads>>

(* lines 147-152 and the finally clause *)
Return ==
    /\ pc = "running"
    /\ qi > Len(request.queue.items)
    /\ pc' = "returned"
    /\ outcome' = Returned(query_result, Crs(request), OutputFormat(request), Metadata)
    /\ connection_ckan' = Finally(connection_ckan, connection_data).ckan
    /\ connection_data' = Finally(connection_ckan, connection_data).data
    /\ UNCHANGED <<config, request, useDefault, default_metadata, arg_metadata,
                   resources, elapsed_time, qi, query_result, sent, catalog_loads, last>>

(* the caller has the result or the exception; the frame of the call and  *)
(* the context are gone, the default metadata dict of the function stays  *)
Leave ==
    /\ pc \in {"returned", "raised"}
    /\ pc' = "idle"
    /\ config' = BaseConfig
    /\ request' = Envelope(NoOpt, NoOpt, Absent)
    /\ useDefault' = TRUE
    /\ arg_metadata' = << >>
    /\ connection_ckan' = "none"
    /\ connection_data' = "none"
    /\ resources' = << >>
    /\ elapsed_time' = 0
    /\ qi' = 1
    /\ query_result' = << >>
    /\ sent' = << >>
    /\ catalog_loads' = 0
    /\ last' = NoLast
    /\ outcome' = NoOutcome
    /\ UNCHANGED default_metadata

Next ==
    \/ \E sc \in Scenarios : Call(sc)
    \/ \E ok \in BOOLEAN : ConnectCatalog(ok)
    \/ \E ok \in BOOLEAN : ConnectData(ok)
    \/ \E ok \in BOOLEAN : LoadCatalog(ok)
    \/ \E dbFails \in BOOLEAN : CompileQuery(dbFails)
    \/ \E db \in DbOutcomes, e \in ElapsedChoices : RunStatement(db, e)
    \/ Return
    \/ Leave

Spec == Init /\ [][Next]_vars

-----------------------------------------------------------------------------
(* Properties *)

Terminal == pc \in {"returned", "raised"}

SentOfKind(k) == {i \in 1..Len(sent) : sent[i].kind = k}

(* C1: on every exit path of execute, return or raise, each connection    *)
(* the call opened is closed; no terminal state holds an open connection. *)
C1_ConnectionsClosed ==
    Terminal => /\ connection_ckan \in {"none", "closed"}
                /\ connection_data \in {"none", "closed"}
                /\ catalog_loads > 0 => connection_ckan = "closed" /\ connection_data = "closed"

(* the second connection failed to open: the first one is closed *)
C1_Witness ==
    /\ pc = "raised"
    /\ connection_ckan = "closed"
    /\ connection_data = "none"
    /\ outcome.inner.type = "DBAPIError"

(* C2: every failure leaves execute as a DataException and returns no     *)
(* result; a response is returned only when every query of the queue      *)
(* compiled and ran, and it holds one result per entry of the queue.      *)
C2_SingleErrorKind ==
    /\ last.exc.type # "none" => pc = "raised"
    /\ pc = "raised" => /\ outcome.kind = "raise"
                        /\ outcome.exc.type = "DataException"
                        /\ outcome.data = << >>
    /\ pc = "returned" => /\ outcome.kind = "return"
                          /\ outcome.exc.type = "none"
                          /\ last.exc.type = "none"
                          /\ Len(outcome.data) = Len(request.queue.items)
                          /\ Cardinality(SentOfKind("sql")) = Len(request.queue.items)
                          /\ \A i \in 1..Len(outcome.data) : outcome.data[i].query = i

(* the second query of a batch fails in the database after the first one  *)
(* produced its result                                                     *)
C2_Witness ==
    /\ pc = "raised"
    /\ Len(query_result) = 1
    /\ qi = 2
    /\ outcome.inner.type = "DBAPIError"
    /\ outcome.exc.type = "DataException"

(* C3 as stated: every statement_timeout sent is at least 1000 and at     *)
(* most the configured total timeout T.                                    *)
C3_WithinFloorAndTotal ==
    \A i \in SentOfKind("set_timeout") :
        sent[i].timeout >= 1000 /\ sent[i].timeout <= TimeoutOf(config)

(* C3: every statement_timeout sent is at least 1000; it is at most T     *)
(* when T is at least 1000, and it is the floor of 1000 when T is below.  *)
C3_WithinFloorAndMaxOfTotal ==
    \A i \in SentOfKind("set_timeout") :
        /\ sent[i].timeout >= 1000
        /\ sent[i].timeout <= Max(TimeoutOf(config), 1000)
        /\ TimeoutOf(config) < 1000 => sent[i].timeout = 1000

(* the second query of a batch gets what the first one left of the total, *)
(* truncated to whole milliseconds                                         *)
C3_Witness ==
    \E i, j \in SentOfKind("set_timeout") :
        /\ j < i
        /\ sent[j].timeout = TimeoutOf(config)
        /\ sent[i].timeout > 1000
        /\ sent[i].timeout < TimeoutOf(config)

ExpiredMessage ==
    "Execution timeout has expired. Current timeout value is {timeout} seconds."

Expired == pc = "raised" /\ outcome.exc = DataException(ExpiredMessage)

(* C4: each query that ran adds at most one second to elapsed_time, and   *)
(* the batch fails with the expired-timeout error exactly when            *)
(* elapsed_time has reached the configured total, timeout ms / 1000       *)
(* seconds without rounding.                                               *)
C4_ExpiresExactlyAtTotal ==
    config.hasTimeout =>
        /\ elapsed_time <= Cardinality(SentOfKind("sql")) * TicksPerSecond
        /\ Expired => elapsed_time >= config.timeout * TicksPerMs
        /\ (last.db = "ok" /\ elapsed_time >= config.timeout * TicksPerMs) => Expired

(* C5: without the key 'timeout' the budget is 30000 ms: the statement    *)
(* timeout is computed from 30000, the check after a query compares with  *)
(* 30 seconds, and a query that ran quickly gives its result.             *)
C5_DefaultBudget ==
    ~config.hasTimeout =>
        /\ \A i \in SentOfKind("set_timeout") :
               sent[i].timeout \in 1000..DEFAULT_SQL_TIMEOUT
        /\ (last.db = "ok" /\ elapsed_time * 1000 < DEFAULT_SQL_TIMEOUT * TicksPerSecond)
               => /\ last.exc.type = "none"
                  /\ Len(query_result) = Cardinality(SentOfKind("sql"))

(* C6: a batch run without a metadata argument starts with an empty       *)
(* metadata cache, and its cache and aliases come only from the resources *)
(* the batch itself introspected.                                          *)
C6_BatchesShareNothing ==
    useDefault =>
        /\ (pc = "running" /\ qi = 1 /\ ~last.ran) => Metadata = << >>
        /\ pc \in {"running", "compiled"} =>
               \A i \in 1..Len(Metadata) :
                   \E j \in SentOfKind("describe") : sent[j].resource = Metadata[i].key

(* the metadata holds a resource of this alias with a field of this name *)
ColumnKnown(alias, field) ==
    \E i \in 1..Len(Metadata) :
        Metadata[i].alias = alias /\ Has(Metadata[i].fields, field)

(* C7: every identifier of a compiled statement, table, alias, and field  *)
(* of the select list, the where clause and the order-by clause, comes    *)
(* from the catalog or the introspected metadata; a sort entry whose name *)
(* is not a field of its resource is not emitted.                          *)
C7_IdentifiersFromMetadata ==
    pc = "compiled" =>
        /\ \A i \in 1..Len(last.sql.tables) :
               \E j \in 1..Len(Metadata) :
                   /\ Metadata[j].table = last.sql.tables[i].table
                   /\ Metadata[j].alias = last.sql.tables[i].alias
                   /\ Metadata[j].key \in Range(CatalogRows)
        /\ \A i \in 1..Len(last.sql.fields) :
               ColumnKnown(last.sql.fields[i].col.q, last.sql.fields[i].col.s)
        /\ \A i \in 1..Len(last.sql.wheres) :
               \A k \in 1..Len(last.sql.wheres[i]) :
                   last.sql.wheres[i][k].t = "col"
                       => ColumnKnown(last.sql.wheres[i][k].q, last.sql.wheres[i][k].s)
        /\ \A i \in 1..Len(last.sql.orderby) :
               ColumnKnown(last.sql.orderby[i].q, last.sql.orderby[i].s)

(* the value a literal operand is bound as *)
BoundAs(operator, a) ==
    IF a.kind = "geom" THEN WktDumps(a)
    ELSE IF operator = OP_LIKE THEN LikePattern(a)
    ELSE a

(* the literal operands of a filter of the request, as they are bound;    *)
(* the comparison token of AREA and DISTANCE is not an operand            *)
LiteralOperands(f) ==
    LET token == IF f.operator = OP_AREA THEN 2
                 ELSE IF f.operator = OP_DISTANCE THEN 3 ELSE 0
    IN  { BoundAs(f.operator, f.arguments[j]) :
            j \in {k \in 1..Len(f.arguments) : k # token /\ f.arguments[k].kind # "dict"} }

TokensOfType(where, t) == {k \in 1..Len(where) : where[k].t = t}

RECURSIVE CountParams(_, _)
CountParams(wheres, i) ==
    IF i > Len(wheres) THEN 0
    ELSE Cardinality(TokensOfType(wheres[i], "param")) + CountParams(wheres, i + 1)

(* C8: each literal operand of each filter of a compiled query is in the  *)
(* tuple of values and is a placeholder in the text; the comparison token *)
(* of AREA and DISTANCE is in the text as one of =, >, >=, <, <= only.    *)
C8_LiteralsBound ==
    (pc = "compiled" /\ last.original.filters.kind = "list") =>
        LET filters == last.original.filters.items
            wheres == last.sql.wheres
        IN  /\ Len(wheres) = Len(filters)
            /\ \A i \in 1..Len(wheres) :
                   /\ TokensOfType(wheres[i], "lit") = {}
                   /\ filters[i].operator \in {OP_AREA, OP_DISTANCE} =>
                          \A k \in TokensOfType(wheres[i], "op") :
                              wheres[i][k].s \in {"=", ">", ">=", "<", "<="}
                   /\ Cardinality(TokensOfType(wheres[i], "param"))
                          >= Cardinality(LiteralOperands(filters[i]))
            /\ CountParams(wheres, 1) = Len(last.values)
            /\ Range(last.values) = UNION {LiteralOperands(filters[i]) : i \in 1..Len(filters)}

(* three filters with a string, a geometry, a threshold and a number *)
C8_Witness ==
    /\ pc = "compiled"
    /\ Len(last.sql.wheres) = 3
    /\ Len(last.values) = 4
    /\ \E i \in 1..3 : last.original.filters.items[i].operator = OP_AREA

InRange(num) == ~NumLess(num, IntNum(1)) /\ ~NumLess(IntNum(MAX_RESULT_ROWS), num)

(* the limit the statement has for the limit of the request *)
EmittedAsGiven ==
    /\ pc = "compiled" =>
          last.sql.limit =
              IF /\ last.original.limit.kind = "num"
                 /\ NumLess(IntNum(0), last.original.limit)
                 /\ NumLess(last.original.limit, IntNum(MAX_RESULT_ROWS))
              THEN last.original.limit
              ELSE IntNum(MAX_RESULT_ROWS)
    /\ (last.ran /\ last.original.limit.kind = "str") =>
          pc = "raised" /\ outcome.exc = DataException("Parameter limit must be a number.")

C10_ResourcesRequired ==
    (last.ran /\ (last.original.resources.kind # "list"
                    \/ last.original.resources.items = << >>)) =>
        /\ pc = "raised"
        /\ outcome.exc.type = "DataException"
        /\ outcome.exc.message \in
               {"No resource selected.",
                "Parameter resource should be a list with at least one item."}
        /\ SentOfKind("sql") = {}

(* the alias of an entry of resources, and the entries that are well formed *)
AliasOfEntry(r) == IF r.kind = "dict" /\ r.hasAlias THEN r.alias ELSE r.name
WellFormed(items) == \A i \in 1..Len(items) : items[i].kind \in {"dict", "str"} /\ items[i].hasName

(* two entries of different names, the alias of one being the alias or    *)
(* the name of the other                                                   *)
AliasConflict(items) ==
    \E i, j \in 1..Len(items) :
        /\ i # j
        /\ items[i].name # items[j].name
        /\ AliasOfEntry(items[i]) \in {AliasOfEntry(items[j]), items[j].name}

(* C11: a query in which two entries of resources have the same alias, or *)
(* one has the name of the other as alias, for different resources, is    *)
(* refused; it never compiles with the alias mapped to one of them.       *)
C11_AliasConflictRefused ==
    (last.ran /\ last.original.resources.kind = "list"
              /\ WellFormed(last.original.resources.items)
              /\ AliasConflict(last.original.resources.items)) =>
        /\ pc = "raised"
        /\ outcome.exc.type = "DataException"
        /\ pc # "compiled"

(* the state CompileQuery leaves: the query was compiled or refused, and  *)
(* no statement was run for it yet                                         *)
JustCompiled == last.ran /\ last.db = "none"

(* lists of entries that name resources of the catalog *)
KnownResources(res) ==
    /\ res.kind = "list"
    /\ res.items # << >>
    /\ WellFormed(res.items)
    /\ \A i \in 1..Len(res.items) : res.items[i].name \in Range(CatalogRows)

NoFieldsSelected(q) ==
    q.fields.kind = "absent" \/ (q.fields.kind = "list" /\ q.fields.items = << >>)

OnlyResourcesAndFields(q) ==
    /\ q.filters.kind = "absent"
    /\ q.sort.kind = "absent"
    /\ q.limit.kind # "str"
    /\ q.offset.kind # "str"

NamesOf(items) == {items[i].name : i \in 1..Len(items)}

(* the number of fields of the resources of the metadata named in items *)
RECURSIVE CountFields(_, _, _)
CountFields(metadata, names, i) ==
    IF i > Len(metadata) THEN 0
    ELSE (IF metadata[i].key \in names THEN Len(metadata[i].fields) ELSE 0)
         + CountFields(metadata, names, i + 1)

(* C12: a query without fields, or with an empty list of fields, over any *)
(* resources of the catalog, two with a field of the same name included,  *)
(* compiles with all the fields of all its resources projected.           *)
C12_AllFieldsProjected ==
    (JustCompiled /\ KnownResources(last.original.resources)
                  /\ NoFieldsSelected(last.original)
                  /\ OnlyResourcesAndFields(last.original)
                  /\ OutputFormat(request) = QUERY_FORMAT_JSON
                  /\ last.exc.type # "DBAPIError") =>
        /\ pc = "compiled"
        /\ Len(last.sql.fields) =
               CountFields(Metadata, NamesOf(last.original.resources.items), 1)

(* the resources of the query that have a field of this name *)
HavingField(name) ==
    {n \in NamesOf(last.original.resources.items) :
        Has(Metadata, n) /\ Has(Get(Metadata, n).fields, name)}

(* a reference to a field that names no resource *)
Unqualified(e) == e.hasName /\ (e.kind = "str" \/ (e.kind = "dict" /\ ~e.hasResource))

(* what the inference of the resource of a field does: none has it, more  *)
(* than one has it, one has it and its alias is the one used              *)
Inferred(name, missing, ambiguous, unresolved, used) ==
    /\ HavingField(name) = {} => pc = "raised" /\ outcome.exc = DataException(missing)
    /\ Cardinality(HavingField(name)) > 1 =>
           pc = "raised" /\ outcome.exc = DataException(ambiguous)
    /\ Cardinality(HavingField(name)) = 1 =>
           /\ pc = "raised" => outcome.exc.message \notin {missing, ambiguous} \cup unresolved
           /\ pc = "compiled" =>
                  used = Get(Metadata, CHOOSE n \in HavingField(name) : TRUE).alias

(* the query has one entry of fields, unqualified, and nothing else to refuse *)
OneUnqualifiedField ==
    /\ JustCompiled /\ KnownResources(last.original.resources)
    /\ last.exc.type # "DBAPIError"
    /\ OnlyResourcesAndFields(last.original)
    /\ last.original.fields.kind = "list"
    /\ Len(last.original.fields.items) = 1
    /\ Unqualified(last.original.fields.items[1])

(* the query has one entry of sort, unqualified, after fields that resolve *)
OneUnqualifiedSort ==
    /\ JustCompiled
    /\ last.exc.type # "DBAPIError"
    /\ \/ last.original.resources \in {R1, R12} /\ last.original.fields = NamedFields
       \/ last.original.resources = R1 /\ last.original.fields = Absent
    /\ last.original.filters.kind = "absent"
    /\ last.original.limit.kind # "str" /\ last.original.offset.kind # "str"
    /\ last.original.sort.kind = "list"
    /\ Len(last.original.sort.items) = 1
    /\ Unqualified(last.original.sort.items[1])

(* lines 415-418: the field an entry of sort names, through an output alias *)
SortTarget(q) ==
    IF q.fields.kind = "list"
          /\ \E i \in 1..Len(q.fields.items) : AliasOfEntry(q.fields.items[i]) = q.sort.items[1].name
    THEN q.fields.items[CHOOSE i \in 1..Len(q.fields.items) :
                            AliasOfEntry(q.fields.items[i]) = q.sort.items[1].name].name
    ELSE q.sort.items[1].name

FieldArgs(f) == {k \in 1..Len(f.arguments) : f.arguments[k].kind = "dict"}

(* the query has one comparison with one field, unqualified, after        *)
(* fields that resolve                                                     *)
OneUnqualifiedOperand ==
    /\ JustCompiled
    /\ last.exc.type # "DBAPIError"
    /\ last.original.resources \in {R1, R12} /\ last.original.fields = GeomOfR1
    /\ last.original.sort.kind = "absent"
    /\ last.original.limit.kind # "str" /\ last.original.offset.kind # "str"
    /\ last.original.filters.kind = "list"
    /\ Len(last.original.filters.items) = 1
    /\ LET f == last.original.filters.items[1]
       IN  /\ f.kind = "dict" /\ f.hasOperator /\ f.hasArguments /\ f.argsIsList
           /\ f.operator \in Range(COMPARE_OPERATORS)
           /\ Len(f.arguments) = 2
           /\ Cardinality(FieldArgs(f)) = 1
           /\ \A k \in FieldArgs(f) : f.arguments[k].hasName /\ ~f.arguments[k].hasResource

OperandName == 
    LET f == last.original.filters.items[1]
    IN  f.arguments[CHOOSE k \in FieldArgs(f) : TRUE].name

UsedInWhere ==
    last.sql.wheres[1][CHOOSE k \in TokensOfType(last.sql.wheres[1], "col") : TRUE].q

(* C13: a field named without a resource, in fields, in sort or in a      *)
(* filter, gets its resource from the resources of the query: none has    *)
(* the field, 'does not exist'; more than one, 'is ambiguous for          *)
(* resources'; exactly one, that resource is the one used.                 *)
C13_ResourceInferred ==
    /\ OneUnqualifiedField =>
           Inferred(last.original.fields.items[1].name,
                    "Field {field} does not exist.",
                    "Field {field} is ambiguous for resources {resources}.",
                    {"Field {field} does not exist in resource {resource}.",
                     "Resource {resource} for field {field} does not exist."},
                    last.sql.fields[1].col.q)
    /\ OneUnqualifiedSort =>
           Inferred(SortTarget(last.original),
                    "Sorting field {field} does not exist.",
                    "Sorting field {field} is ambiguous for resources {resources}.",
                    {"Resource {resource} for sorting field {field} does not exist."},
                    last.sql.orderby[1].q)
    /\ OneUnqualifiedOperand =>
           Inferred(OperandName,
                    "Field {field} does not exist.",
                    "Field {field} is ambiguous for resources {resources}.",
                    {"Field {field} does not belong to resource {resource}.",
                     "Resource {resource} does not exist."},
                    UsedInWhere)

(* the resources an entry of fields may mean: the one it names, or those  *)
(* of the query that have the field                                        *)
FieldResource(f) ==
    IF f.kind = "dict" /\ f.hasResource THEN {f.resource} ELSE HavingField(f.name)

(* the entry resolves through the tables of the query to a field *)
FieldResolves(f) ==
    /\ f.kind \in {"dict", "str"} /\ f.hasName
    /\ Cardinality(FieldResource(f)) = 1
    /\ \A r \in FieldResource(f) :
           /\ Resolves(Metadata, last.mapping, r)
           /\ Has(Resolve(Metadata, last.mapping, r).fields, f.name)

(* two entries of fields, each of which resolves, have one output alias *)
SharedOutputAlias(q) ==
    /\ q.fields.kind = "list"
    /\ \A i \in 1..Len(q.fields.items) : FieldResolves(q.fields.items[i])
    /\ \E i, j \in 1..Len(q.fields.items) :
           i # j /\ AliasOfEntry(q.fields.items[i]) = AliasOfEntry(q.fields.items[j])

(* C14: the projected fields of a compiled query have pairwise different  *)
(* output aliases, and a query two fields of which resolve to the same    *)
(* output alias, given or defaulted, is refused as ambiguous.             *)
C14_OutputAliasesDistinct ==
    /\ pc = "compiled" =>
           \A i, j \in 1..Len(last.sql.fields) :
               last.sql.fields[i].alias = last.sql.fields[j].alias => i = j
    /\ (JustCompiled /\ KnownResources(last.original.resources)
           /\ last.exc.type # "DBAPIError"
           /\ last.original.limit.kind # "str" /\ last.original.offset.kind # "str"
           /\ SharedOutputAlias(last.original)) =>
           /\ pc = "raised"
           /\ outcome.exc = DataException("Field {field} in resource {resource} is ambiguous.")

C14_Witness ==
    /\ JustCompiled /\ pc = "raised"
    /\ SharedOutputAlias(last.original)
    /\ \E i \in 1..Len(last.original.fields.items) : last.original.fields.items[i].hasAlias
    /\ outcome.exc = DataException("Field {field} in resource {resource} is ambiguous.")

GeometryMessage == "Format {format} requires exactly one geometry column"

(* the entry of fields names the geometry column of its resource *)
IsGeometryEntry(f) ==
    \A r \in FieldResource(f) :
        Resolve(Metadata, last.mapping, r).geometry_column = f.name

(* the query gets as far as the count of line 376: its resources are      *)
(* known and its fields resolve to pairwise different output aliases      *)
ReachesGeometryCount(q) ==
    /\ q.resources.kind = "list" /\ WellFormed(q.resources.items)
    /\ \A i \in 1..Len(q.resources.items) : q.resources.items[i].name \in Range(CatalogRows)
    /\ ~AliasConflict(q.resources.items)
    /\ q.limit.kind # "str" /\ q.offset.kind # "str"
    /\ IF NoFieldsSelected(q)
       THEN Cardinality(NamesOf(q.resources.items)) <= 1
       ELSE /\ q.fields.kind = "list"
            /\ \A i \in 1..Len(q.fields.items) : FieldResolves(q.fields.items[i])
            /\ ~SharedOutputAlias(q)

(* the number of geometry columns among the projected fields *)
ProjectedGeometries(q) ==
    IF NoFieldsSelected(q)
    THEN Cardinality({n \in NamesOf(q.resources.items) :
                         Has(Get(Metadata, n).fields, Get(Metadata, n).geometry_column)})
    ELSE Cardinality({i \in 1..Len(q.fields.items) : IsGeometryEntry(q.fields.items[i])})

(* C15: with format GeoJSON a query compiles only if exactly one of its   *)
(* projected fields is a geometry column; with none or with more than one *)
(* it is refused with 'requires exactly one geometry column' and nothing  *)
(* is executed for it.  With format JSON the number is not looked at.     *)
C15_ExactlyOneGeometry ==
    (JustCompiled /\ last.exc.type # "DBAPIError" /\ ReachesGeometryCount(last.original)) =>
        IF OutputFormat(request) = QUERY_FORMAT_GEOJSON
        THEN /\ pc = "compiled" => ProjectedGeometries(last.original) = 1
             /\ ProjectedGeometries(last.original) # 1 =>
                    /\ pc = "raised"
                    /\ outcome.exc = DataException(GeometryMessage)
        ELSE pc = "raised" => outcome.exc.message # GeometryMessage

(* the column of the token is a geometry column stored in another SRID    *)
(* than 2100                                                               *)
StoredElsewhere(tok) ==
    /\ tok.t = "col"
    /\ \E i \in 1..Len(Metadata) :
           /\ Metadata[i].alias = tok.q
           /\ Metadata[i].geometry_column = tok.s
           /\ Metadata[i].srid # CRS_DEFAULT_DATABASE

(* in the expression w, every geometry side of another SRID than 2100 is  *)
(* the first argument of ST_Transform(..., 2100)                           *)
SidesTransformed(w) ==
    \A i \in 1..Len(w) :
        /\ StoredElsewhere(w[i]) =>
               /\ i > 1 /\ w[i - 1] = Kw("ST_Transform(")
               /\ i < Len(w) /\ w[i + 1] = Kw(", 2100)")
        /\ w[i] = Kw("ST_GeomFromText(") =>
               /\ i > 1 /\ w[i - 1] = Kw("ST_Transform(")
               /\ i + 3 <= Len(w) /\ w[i + 2] = Kw(", 3857)") /\ w[i + 3] = Kw(", 2100)")

(* C16: in the expression of every spatial filter (AREA, DISTANCE,        *)
(* CONTAINS, INTERSECTS) each geometry side whose SRID is not 2100, a     *)
(* geometry field stored in another SRID or a literal geometry (3857), is *)
(* wrapped in a transform to 2100.                                         *)
C16_SpatialSidesIn2100 ==
    (pc = "compiled" /\ last.ran /\ last.original.filters.kind = "list") =>
        \A k \in 1..Len(last.sql.wheres) :
            last.original.filters.items[k].operator \in Range(SPATIAL_OPERATORS) =>
                SidesTransformed(last.sql.wheres[k])

(* every entry of the older cache is in the newer one, as it was *)
Extends(older, newer) ==
    \A i \in 1..Len(older) :
        /\ Has(newer, older[i].key)
        /\ Get(newer, older[i].key) = older[i]

(* C17: while a batch runs, no step removes an entry of the metadata      *)
(* cache or changes the fields, the geometry column, the SRID or the      *)
(* table alias of one, whether the query of the step compiles or fails.   *)
C17_MetadataMonotonic ==
    [][(pc # "idle" /\ pc' # "idle") => Extends(Metadata, Metadata')]_vars

(* a later query of a batch failed, or added an entry, with the entry of  *)
(* an earlier query in the cache                                           *)
C17_Witness ==
    /\ pc \in {"raised", "compiled"}
    /\ request.queue.kind = "list" /\ Len(request.queue.items) >= 2
    /\ qi = 2 /\ last.ran /\ last.original = request.queue.items[2]
    /\ Has(Metadata, "r1")
    /\ NamesOf(request.queue.items[1].resources.items) = {"r1"}
    /\ \/ pc = "raised" /\ outcome.exc.type = "DataException"
       \/ pc = "compiled" /\ Has(Metadata, "r2")

(* C18: an envelope whose crs is not a supported one is refused with a    *)
(* DataException whose message says that the CRS is not supported, not    *)
(* with the message of an unhandled exception, as an unsupported format   *)
(* is refused with a message of its own; a supported crs is recorded as   *)
(* the integer after the colon.                                            *)
C18_UnsupportedCrsReported ==
    /\ (pc # "idle" /\ request.crs.has /\ request.crs.v \notin CRS_SUPPORTED) =>
           /\ pc = "raised"
           /\ outcome.exc.type = "DataException"
           /\ outcome.exc.message = "CRS {crs} is not supported."
           /\ outcome.exc.message # "Unhandled exception has occured."
    /\ (pc = "returned" /\ request.crs.has) =>
           /\ request.crs.v \in CRS_SUPPORTED
           /\ outcome.crs = CrsCode(request.crs.v)

CanceledMessage == "Execution exceeded timeout."
UnhandledMessage == "Unhandled exception has occured."

(* C19: a database error of SQLSTATE 57014 leaves execute as the          *)
(* DataException 'Execution exceeded timeout.' that wraps it, any other   *)
(* database error with the message of an unhandled exception, and the     *)
(* budget found exhausted after a query with the message 'Execution       *)
(* timeout has expired', never with one of the other two.                  *)
C19_TimeoutMessagesDistinct ==
    /\ (pc = "raised" /\ outcome.inner.type = "DBAPIError") =>
           /\ outcome.exc.type = "DataException"
           /\ outcome.exc.message =
                  IF outcome.inner.pgcode = PG_QUERY_CANCELED THEN CanceledMessage
                  ELSE UnhandledMessage
    /\ (last.exc.type = "DBAPIError" /\ last.exc.pgcode = PG_QUERY_CANCELED) =>
           /\ pc = "raised"
           /\ outcome.inner = last.exc
    /\ (last.db = "ok" /\ config.hasTimeout /\ elapsed_time >= BudgetSeconds(config)) =>
           /\ pc = "raised"
           /\ outcome.exc = DataException(ExpiredMessage)
           /\ outcome.exc.message \notin {CanceledMessage, UnhandledMessage}
    /\ (pc = "raised" /\ outcome.exc.message = ExpiredMessage) =>
           /\ last.db = "ok"
           /\ elapsed_time >= BudgetSeconds(config)

C19_Witness ==
    /\ pc = "raised"
    /\ last.db = "failed"
    /\ outcome.inner = DBAPIError(PG_QUERY_CANCELED)
    /\ outcome.exc.message = CanceledMessage

(* an entry of sort is an object whose desc is there and is not a boolean *)
DescNotBoolean(q) ==
    /\ q.sort.kind = "list"
    /\ \E i \in 1..Len(q.sort.items) :
           q.sort.items[i].kind = "dict" /\ q.sort.items[i].desc = "other"

(* C20: a query with an entry of sort whose desc is present and not a     *)
(* boolean is refused with a DataException; it is never compiled, with    *)
(* the entry taken as ascending.                                           *)
C20_DescMustBeBoolean ==
    (JustCompiled /\ DescNotBoolean(last.original)) =>
        /\ pc = "raised"
        /\ last.exc.type = "DataException"
        /\ last.sql.orderby = << >>

(* the names of a sequence, each kept where it comes first *)
RECURSIVE FirstOccurrences(_, _, _)
FirstOccurrences(names, i, seen) ==
    IF i > Len(names) THEN << >>
    ELSE IF names[i] \in seen THEN FirstOccurrences(names, i + 1, seen)
    ELSE <<names[i]>> \o FirstOccurrences(names, i + 1, seen \cup {names[i]})

(* the resource names of the queries of a queue, in the order given *)
RECURSIVE ReferencedNames(_, _)
ReferencedNames(queue, i) ==
    IF i > Len(queue) THEN << >>
    ELSE [k \in 1..Len(queue[i].resources.items) |-> queue[i].resources.items[k].name]
         \o ReferencedNames(queue, i + 1)

(* the resources of the catalog the batch refers to, by first reference *)
FirstReferenced ==
    FirstOccurrences(SelectSeq(ReferencedNames(request.queue.items, 1),
                               LAMBDA n : n \in Range(CatalogRows)), 1, {})

(* the batch was given an empty metadata dict of its own *)
StartedEmpty ==
    /\ pc # "idle" /\ ~useDefault
    /\ request.queue.kind = "list"
    /\ \A i \in 1..Len(request.queue.items) :
           /\ request.queue.items[i].resources.kind = "list"
           /\ WellFormed(request.queue.items[i].resources.items)

(* C21: in a batch that starts with an empty metadata cache the table     *)
(* aliases of the cached resources are pairwise different and are t1..tN  *)
(* for N cached resources, given in the order of first reference, k being *)
(* one more than the number of resources cached before; a resource that a *)
(* later query names again keeps its alias.                                *)
C21_AliasesInOrderOfReference ==
    StartedEmpty =>
        /\ \A i, j \in 1..Len(Metadata) : Metadata[i].alias = Metadata[j].alias => i = j
        /\ {Metadata[i].alias : i \in 1..Len(Metadata)} = 1..Len(Metadata)
        /\ Len(Metadata) <= Len(FirstReferenced)
        /\ \A i \in 1..Len(Metadata) :
               /\ Metadata[i].key = FirstReferenced[i]
               /\ Metadata[i].alias = i
        /\ pc = "returned" => Len(Metadata) = Len(FirstReferenced)

C21_Witness ==
    /\ StartedEmpty /\ pc = "returned"
    /\ Len(request.queue.items) = 2
    /\ Len(Metadata) = 2
    /\ Metadata[1].key = "r2" /\ Metadata[1].alias = 1
    /\ Metadata[2].key = "r1" /\ Metadata[2].alias = 2
    /\ "r2" \in NamesOf(request.queue.items[2].resources.items)

(* C22: compiling a query leaves the submitted query, its fields and the  *)
(* arguments of its filters, and the entries of the catalog map as they   *)
(* were; only the alias table and the metadata cache change.              *)
C22_CompilationFrame ==
    JustCompiled =>
        /\ last.query = last.original
        /\ qi = 1 => resources = getResources

(* the query names a resource the catalog does not have, and nothing      *)
(* before the resources loop refuses it                                    *)
NamesUnknownResource(q) ==
    /\ q.resources.kind = "list" /\ WellFormed(q.resources.items)
    /\ q.limit.kind # "str" /\ q.offset.kind # "str"
    /\ \E i \in 1..Len(q.resources.items) : q.resources.items[i].name \notin Range(CatalogRows)

(* the statements before position i of a sequence of statements that run  *)
(* a query                                                                 *)
SqlBefore(statements, i) == {j \in 1..(i - 1) : statements[j].kind = "sql"}

(* the i-th statement, sent by this step, is the one introspection of its *)
(* resource in the batch: of a resource of the catalog that the metadata  *)
(* did not hold, named by the query of the step and by none before it,    *)
(* and sent before the statement of that query                             *)
FirstIntrospection(i) ==
    /\ ~Has(Metadata, sent'[i].resource)
    /\ sent'[i].resource \in Range(CatalogRows)
    /\ sent'[i].resource \in NamesOf(request.queue.items[qi].resources.items)
    /\ \A k \in 1..(qi - 1) :
           sent'[i].resource \notin NamesOf(request.queue.items[k].resources.items)
    /\ \A j \in 1..(i - 1) :
           sent'[j].kind = "describe" => sent'[j].resource # sent'[i].resource
    /\ Cardinality(SqlBefore(sent', i)) = qi - 1

(* C23: in one batch describeResource is called for a resource at most    *)
(* once, by the first query that names it and before the statement of     *)
(* that query runs; never for a resource the metadata cache holds, never  *)
(* for a name the catalog does not have, which fails with 'does not       *)
(* exist'.                                                                 *)
C23_IntrospectedOnce ==
    [][pc # "idle" =>
          /\ \A i \in (Len(sent) + 1)..Len(sent') :
                 sent'[i].kind = "describe" => FirstIntrospection(i)
          /\ (pc = "running" /\ last'.ran /\ last'.db = "none"
                 /\ last'.exc.type # "DBAPIError"
                 /\ NamesUnknownResource(last'.original)) =>
                 /\ pc' = "raised"
                 /\ last'.exc = DataException("Resource {resource} does not exist.")]_vars

(* two queries of a batch name r1, which was introspected once *)
C23_Witness ==
    /\ pc = "returned"
    /\ Len(request.queue.items) = 2
    /\ \A k \in 1..2 : "r1" \in NamesOf(request.queue.items[k].resources.items)
    /\ Cardinality({i \in SentOfKind("describe") : sent[i].resource = "r1"}) = 1
    /\ Cardinality(SentOfKind("describe")) = 2
    /\ Cardinality(SentOfKind("sql")) = 2

(* the SQL operator of a comparison operator, and the operator that       *)
(* relates the same operands the other way round                          *)
ExpressionOf(operator) ==
    COMPARE_EXPRESSIONS[CHOOSE i \in 1..Len(COMPARE_OPERATORS) : COMPARE_OPERATORS[i] = operator]

Mirrored(expression) ==
    CASE expression = ">" -> "<"
      [] expression = ">=" -> "<="
      [] expression = "<" -> ">"
      [] expression = "<=" -> ">="
      [] OTHER -> expression

(* a comparison, LIKE aside, of one field and one literal *)
FieldAndLiteral(f) ==
    /\ f.kind = "dict" /\ f.hasOperator /\ f.hasArguments /\ f.argsIsList
    /\ f.operator \in Range(COMPARE_OPERATORS) \ {OP_LIKE}
    /\ Len(f.arguments) = 2
    /\ Cardinality(FieldArgs(f)) = 1

(* the expression w puts its one column before its one placeholder, with  *)
(* this operator between them                                              *)
ColumnThenLiteral(w, expression) ==
    \E c, o, p \in 1..Len(w) :
        /\ c < o /\ o < p
        /\ w[c].t = "col" /\ w[o] = OpTok(expression) /\ w[p].t = "param"

LiteralThenColumn(w, expression) ==
    \E c, o, p \in 1..Len(w) :
        /\ p < o /\ o < c
        /\ w[c].t = "col" /\ w[o] = OpTok(expression) /\ w[p].t = "param"

(* the expression w means 'a OP b' for the arguments (a, b) of f *)
MeansAsGiven(w, f) ==
    IF f.arguments[1].kind = "dict"
    THEN ColumnThenLiteral(w, ExpressionOf(f.operator))
    ELSE \/ LiteralThenColumn(w, ExpressionOf(f.operator))
         \/ ColumnThenLiteral(w, Mirrored(ExpressionOf(f.operator)))

(* C24: a comparison of a field and a literal is emitted in the order of  *)
(* its arguments: (a, b) with OP means 'a OP b' whether the field comes   *)
(* first or second, so that [literal, field] under GREATER,               *)
(* GREATER_OR_EQUAL, LESS or LESS_OR_EQUAL selects what the mirrored      *)
(* operator selects for [field, literal].                                  *)
C24_OperandsInGivenOrder ==
    (pc = "compiled" /\ JustCompiled /\ last.original.filters.kind = "list") =>
        \A k \in 1..Len(last.sql.wheres) :
            FieldAndLiteral(last.original.filters.items[k]) =>
                MeansAsGiven(last.sql.wheres[k], last.original.filters.items[k])

(* the position of the comparison token among the arguments of a filter *)
ComparisonPosition(f) ==
    IF f.operator = OP_AREA THEN 2 ELSE IF f.operator = OP_DISTANCE THEN 3 ELSE 0

(* the literal operands of a filter from its k-th argument on, in the     *)
(* order of the arguments, as they are bound                               *)
RECURSIVE LiteralsFrom(_, _)
LiteralsFrom(f, k) ==
    IF k > Len(f.arguments) THEN << >>
    ELSE IF k = ComparisonPosition(f) \/ f.arguments[k].kind = "dict"
    THEN LiteralsFrom(f, k + 1)
    ELSE <<BoundAs(f.operator, f.arguments[k])>> \o LiteralsFrom(f, k + 1)

RECURSIVE LiteralsOfFilters(_, _)
LiteralsOfFilters(filters, i) ==
    IF i > Len(filters) THEN << >>
    ELSE LiteralsFrom(filters[i], 1) \o LiteralsOfFilters(filters, i + 1)

FiltersOf(q) == IF q.filters.kind = "list" THEN q.filters.items ELSE << >>

(* C25: a compiled statement has as many positional placeholders in its   *)
(* text as there are values in its tuple, and the i-th placeholder is     *)
(* bound to the i-th value, the literal of the filter and operand that    *)
(* made the placeholder, whatever the filters, the output aliases and     *)
(* the sort names of the query.                                            *)
C25_PlaceholdersMatchValues ==
    (pc = "compiled" /\ JustCompiled) =>
        /\ StatementPlaceholders(last.sql) = Len(last.values)
        /\ SelectPlaceholders(last.sql) = 0
        /\ last.values = LiteralsOfFilters(FiltersOf(last.original), 1)
        /\ \A i \in 1..Len(last.sql.wheres) :
               Cardinality(TokensOfType(last.sql.wheres[i], "param"))
                   = Len(LiteralsFrom(last.original.filters.items[i], 1))

(* the envelope is one the validation refuses: a crs or a format that is  *)
(* not supported, no queue, a queue that is no list, an empty queue       *)
InvalidEnvelope(req) ==
    \/ req.crs.has /\ req.crs.v \notin CRS_SUPPORTED
    \/ req.format.has /\ req.format.v \notin FORMAT_SUPPORT_QUERY
    \/ req.queue.kind # "list"
    \/ Len(req.queue.items) = 0

(* C26: the envelope is validated before anything is done with a         *)
(* database: with an invalid envelope execute fails with no connection    *)
(* opened and no catalog discovery run; with a valid one the catalog      *)
(* discovery runs once, and before the first query is compiled.           *)
C26_ValidationFirst ==
    pc # "idle" =>
        /\ InvalidEnvelope(request) =>
               /\ pc = "raised"
               /\ connection_ckan = "none" /\ connection_data = "none"
               /\ catalog_loads = 0
               /\ sent = << >> /\ ~last.ran
        /\ ~InvalidEnvelope(request) =>
               /\ catalog_loads <= 1
               /\ (last.ran \/ sent # << >> \/ pc \in {"running", "compiled", "returned"}) =>
                      catalog_loads = 1
               /\ catalog_loads = 1 => connection_ckan # "none" /\ connection_data # "none"

(* an empty queue was refused before a connection was opened *)
C26_Witness ==
    /\ pc = "raised"
    /\ request.queue.kind = "list" /\ Len(request.queue.items) = 0
    /\ connection_ckan = "none" /\ connection_data = "none"
    /\ catalog_loads = 0
    /\ outcome.exc.type = "DataException"

====
